---- MODULE Spec2Model ----
(***************************************************************************)
(* State-machine model of the UPAY dashboard client: the session and token *)
(* manager (lib/auth.js, later variant), the Login view, the per-view      *)
(* mount guards and the Review view's "Accept & finalize" handler.         *)
(*                                                                         *)
(* Every asynchronous handler is cut at its await points: one action per   *)
(* resumption.  The backend is the environment: it chooses every response. *)
(***************************************************************************)
EXTENDS Integers, Sequences, FiniteSets, Bags, TLC

\* ------------------------------------------------------------------ bounds
MaxTok == 4     \* tokens the backend issues in one run
MaxReq == 2     \* fetchWithAuth invocations alive at the same time

\* --------------------------------------------------------------- constants
Absent == 0     \* localStorage.getItem(...) === null; also a falsy JSON field

VARIABLES
    store,          \* localStorage: the keys access, refresh, authUser
    location,       \* the path the router shows
    effectPending,  \* the view at location has rendered; its mount effect has not run yet
    nextTok,        \* backend: the next token value it issues
    req,            \* the bag of fetchWithAuth invocations that are alive
    login,          \* LoginPage: component state and the position of onSubmit
    review,         \* ReviewPage: component state and the position of acceptAndFinalize
    dashboard,      \* DashboardPage: loading flag and the feeds requested
    mountLog,       \* what the mount effect that ran last did
    admin,          \* AdminUsers: the creation form, the message and the user list
    upload,         \* UploadPage: selection, file input, messages, position of onSubmit
    calc,           \* a call of a function of lib/utils.js: its argument and its result
    db,             \* the backend's database (api/models.py): rows, last deletion
    loader          \* HTMLLoader: its state, the live head, its loads in flight

vars == <<store, location, effectPending, nextTok, req, login, review, dashboard,
          mountLog, admin, upload, calc, db, loader>>

Tok == 1..MaxTok

\* ------------------------------------------------------------------ routes
Routes == {"/login", "/home", "/upload", "/review", "/bulk-review",
           "/profile", "/dashboard", "/admin/users"}

\* ---------------------------------------------------------- cached user
NoUser == [kind |-> "none", role |-> "", is_staff |-> FALSE, is_superuser |-> FALSE]
UsernameOnly == [kind |-> "username", role |-> "", is_staff |-> FALSE, is_superuser |-> FALSE]
Accounts == [kind : {"profile"}, role : {"admin", "user"},
             is_staff : BOOLEAN, is_superuser : BOOLEAN]

\* ------------------------------------------------------- lib/auth.js
getAccessToken(s) == s.access
getRefreshToken(s) == s.refresh
getAuthUser(s) == s.authUser

saveTokens(s, a, r, u) ==
    [access   |-> IF a # Absent THEN a ELSE s.access,
     refresh  |-> IF r # Absent THEN r ELSE s.refresh,
     authUser |-> IF u.kind # "none" THEN u ELSE s.authUser]

\* clearTokens of the earlier draft (src/upaydash/src/lib/auth.js): the two
\* tokens are removed, the cached user stays.
clearTokensDraft(s) == [s EXCEPT !.access = Absent, !.refresh = Absent]

clearTokens(s) == [access |-> Absent, refresh |-> Absent, authUser |-> NoUser]

isAuthenticated(s) == getAccessToken(s) # Absent

\* A refresh response: the transport failed, a non-success status, or a
\* success body whose access / refresh fields may be missing.
RefreshResponses(t) ==
    {[kind |-> "network", access |-> Absent, refresh |-> Absent],
     [kind |-> "notok",   access |-> Absent, refresh |-> Absent],
     [kind |-> "ok",      access |-> Absent, refresh |-> Absent]}
    \cup (IF t <= MaxTok
          THEN {[kind |-> "ok", access |-> t, refresh |-> Absent]} ELSE {})
    \cup (IF t + 1 <= MaxTok
          THEN {[kind |-> "ok", access |-> t, refresh |-> t + 1]} ELSE {})

\* Tokens a response consumed from the backend's supply.
Issued(resp) == (IF resp.access # Absent THEN 1 ELSE 0)
                + (IF resp.refresh # Absent THEN 1 ELSE 0)

\* The earlier draft of refreshAccessToken (src/upaydash/src/lib/auth.js): a
\* failed refresh returns null and leaves the storage as it is.
refreshAccessTokenDraft(s, sent, resp) ==
    IF resp.kind # "ok" THEN [store |-> s, ret |-> Absent]
    ELSE IF resp.access # Absent
         THEN [store |-> saveTokens(s, resp.access,
                                    IF resp.refresh # Absent THEN resp.refresh ELSE sent,
                                    NoUser),
               ret |-> resp.access]
         ELSE [store |-> s, ret |-> Absent]

\* refreshAccessToken without the `data.refresh ||` of its saveTokens call: a
\* rotated refresh token is dropped.
refreshAccessTokenKeeping(s, sent, resp) ==
    IF resp.kind # "ok" THEN [store |-> clearTokens(s), ret |-> Absent]
    ELSE IF resp.access # Absent
         THEN [store |-> saveTokens(s, resp.access, sent, NoUser), ret |-> resp.access]
         ELSE [store |-> s, ret |-> Absent]

\* refreshAccessToken after its POST settled; `sent` is the refresh token it
\* read before the POST.  ret is the value it returns (Absent for null).
refreshAccessToken(s, sent, resp) ==
    IF resp.kind = "network" THEN [store |-> clearTokens(s), ret |-> Absent]
    ELSE IF resp.kind = "notok" THEN [store |-> clearTokens(s), ret |-> Absent]
    ELSE IF resp.access # Absent
         THEN [store |-> saveTokens(s, resp.access,
                                    IF resp.refresh # Absent THEN resp.refresh ELSE sent,
                                    NoUser),
               ret |-> resp.access]
         ELSE [store |-> s, ret |-> Absent]

\* What the backend answers to a request: a status, or the transport fails.
Answers == {"200", "401", "404", "network"}

\* One fetchWithAuth invocation, as it starts.
\*   sent     the bearer token of every send of the original request, in order
\*   answers  what the backend answered to each send
\*   refreshes  the calls of refreshAccessToken it made
\*   refreshSent  the refresh token refreshAccessToken read and POSTed
\*   dataAccess, dataRefresh  the fields of the refresh response's body
\*   newAccess  the value refreshAccessToken returned
\*   payload  the field value in the body of a Save draft request
NewReq == [pc |-> "idle", owner |-> "none", sent |-> <<>>, answers |-> <<>>,
            refreshes |-> 0, refreshSent |-> Absent, refreshKind |-> "none",
            dataAccess |-> Absent, dataRefresh |-> Absent, newAccess |-> Absent,
            status |-> "none", err |-> "none", cancelled |-> FALSE,
            payload |-> "none"]

\* The earlier draft of fetchWithAuth: it sends whatever the storage holds,
\* an empty Authorization header when there is no token.
fetchWithAuthDraft(s, owner) ==
    [NewReq EXCEPT !.pc = "await1", !.owner = owner, !.sent = <<getAccessToken(s)>>]

\* fetchWithAuth up to its first await: no access token throws, otherwise
\* the request goes out with the stored token as bearer.
fetchWithAuth(s, owner) ==
    IF getAccessToken(s) = Absent
    THEN [NewReq EXCEPT !.pc = "thrown", !.owner = owner, !.err = "noauth"]
    ELSE [NewReq EXCEPT !.pc = "await1", !.owner = owner,
                         !.sent = <<getAccessToken(s)>>]

\* fetchWithAuth resumed with the first response.  A 401 calls
\* refreshAccessToken, which returns null at once when no refresh token is
\* stored and otherwise POSTs it.
afterFirstResponse(s, q, ans) ==
    LET a == [q EXCEPT !.answers = Append(@, ans)] IN
    IF ans = "network"
    THEN [store |-> s, toLogin |-> FALSE,
          req |-> [a EXCEPT !.pc = "thrown", !.err = "network"]]
    ELSE IF ans # "401"
    THEN [store |-> s, toLogin |-> FALSE,
          req |-> [a EXCEPT !.pc = "done", !.status = ans]]
    ELSE IF getRefreshToken(s) = Absent
    THEN [store |-> s, toLogin |-> TRUE,
          req |-> [a EXCEPT !.pc = "thrown", !.err = "authfailed",
                            !.refreshKind = "norefresh", !.refreshes = @ + 1]]
    ELSE [store |-> s, toLogin |-> FALSE,
          req |-> [a EXCEPT !.pc = "awaitRefresh",
                            !.refreshSent = getRefreshToken(s), !.refreshes = @ + 1]]

RefreshKind(resp) ==
    IF resp.kind # "ok" THEN resp.kind
    ELSE IF resp.access = Absent THEN "noaccess" ELSE "ok"

\* afterRefresh with the header left as it was: the retry carries the token
\* of the first send.
afterRefreshStale(s, q, resp) ==
    LET out == refreshAccessToken(s, q.refreshSent, resp)
        a   == [q EXCEPT !.refreshKind = RefreshKind(resp), !.newAccess = out.ret,
                         !.dataAccess = resp.access, !.dataRefresh = resp.refresh] IN
    IF out.ret = Absent
    THEN [store |-> out.store, toLogin |-> TRUE,
          req |-> [a EXCEPT !.pc = "thrown", !.err = "authfailed"]]
    ELSE [store |-> out.store, toLogin |-> FALSE,
          req |-> [a EXCEPT !.pc = "await2", !.sent = Append(@, q.sent[1])]]

\* fetchWithAuth resumed with the value of refreshAccessToken: null sends the
\* browser to /login and throws, a token is put in the header and the request
\* is sent again.
afterRefresh(s, q, resp) ==
    LET out == refreshAccessToken(s, q.refreshSent, resp)
        a   == [q EXCEPT !.refreshKind = RefreshKind(resp), !.newAccess = out.ret,
                         !.dataAccess = resp.access, !.dataRefresh = resp.refresh] IN
    IF out.ret = Absent
    THEN [store |-> out.store, toLogin |-> TRUE,
          req |-> [a EXCEPT !.pc = "thrown", !.err = "authfailed"]]
    ELSE [store |-> out.store, toLogin |-> FALSE,
          req |-> [a EXCEPT !.pc = "await2", !.sent = Append(@, out.ret)]]

\* afterRetry as a loop: a 401 to the retried request refreshes again.
afterRetryAgain(s, q, ans) ==
    LET a == [q EXCEPT !.answers = Append(@, ans)] IN
    IF ans = "network"
    THEN [store |-> s, toLogin |-> FALSE,
          req |-> [a EXCEPT !.pc = "thrown", !.err = "network"]]
    ELSE IF ans = "401" /\ getRefreshToken(s) # Absent
    THEN [store |-> s, toLogin |-> FALSE,
          req |-> [a EXCEPT !.pc = "awaitRefresh",
                            !.refreshSent = getRefreshToken(s), !.refreshes = @ + 1]]
    ELSE [store |-> s, toLogin |-> FALSE,
          req |-> [a EXCEPT !.pc = "done", !.status = ans]]

\* afterRetry treating a second 401 as the end of the session: the tokens
\* are cleared, the browser goes to /login and the call throws.
afterRetryClearing(s, q, ans) ==
    LET a == [q EXCEPT !.answers = Append(@, ans)] IN
    IF ans = "network"
    THEN [store |-> s, toLogin |-> FALSE,
          req |-> [a EXCEPT !.pc = "thrown", !.err = "network"]]
    ELSE IF ans = "401"
    THEN [store |-> clearTokens(s), toLogin |-> TRUE,
          req |-> [a EXCEPT !.pc = "thrown", !.err = "authfailed"]]
    ELSE [store |-> s, toLogin |-> FALSE,
          req |-> [a EXCEPT !.pc = "done", !.status = ans]]

\* fetchWithAuth resumed with the response to the retried request: it is
\* returned as it is.
afterRetry(s, q, ans) ==
    LET a == [q EXCEPT !.answers = Append(@, ans)] IN
    IF ans = "network"
    THEN [store |-> s, toLogin |-> FALSE,
          req |-> [a EXCEPT !.pc = "thrown", !.err = "network"]]
    ELSE [store |-> s, toLogin |-> FALSE,
          req |-> [a EXCEPT !.pc = "done", !.status = ans]]

\* handleApiResponse: a non-success response throws.
handleApiResponse(q) == q.pc = "done" /\ q.status = "200"

Settled(q) == q.pc \in {"done", "thrown"}

\* The invocations alive, a bag: two in the same state are not told apart.
InFlight == BagToSet(req)
Add(b, q) == b (+) SetToBag({q})
Remove(b, q) == b (-) SetToBag({q})
Replace(b, old, new) == Add(Remove(b, old), new)
CanStart == BagCardinality(req) < MaxReq

\* window.location.href = p and navigate(p): the router shows p, whose mount
\* effect runs after the render.
GoTo(p) == location' = p /\ effectPending' = TRUE

\* -------------------------------------------- fetchWithAuth, resumptions
FetchFirstResponse(q) ==
    /\ q.pc = "await1"
    /\ \E ans \in Answers :
         LET o == afterFirstResponse(store, q, ans) IN
         /\ store' = o.store
         /\ req' = Replace(req, q, o.req)
         /\ IF o.toLogin THEN GoTo("/login")
                         ELSE UNCHANGED <<location, effectPending>>
    /\ UNCHANGED <<nextTok, login, review, dashboard, mountLog, admin, upload, calc, db, loader>>

FetchRefreshResponse(q) ==
    /\ q.pc = "awaitRefresh"
    /\ \E resp \in RefreshResponses(nextTok) :
         LET o == afterRefresh(store, q, resp) IN
         /\ store' = o.store
         /\ nextTok' = nextTok + Issued(resp)
         /\ req' = Replace(req, q, o.req)
         /\ IF o.toLogin THEN GoTo("/login")
                         ELSE UNCHANGED <<location, effectPending>>
    /\ UNCHANGED <<login, review, dashboard, mountLog, admin, upload, calc, db, loader>>

FetchRetryResponse(q) ==
    /\ q.pc = "await2"
    /\ \E ans \in Answers :
         LET o == afterRetry(store, q, ans) IN
         /\ store' = o.store
         /\ req' = Replace(req, q, o.req)
         /\ IF o.toLogin THEN GoTo("/login")
                         ELSE UNCHANGED <<location, effectPending>>
    /\ UNCHANGED <<nextTok, login, review, dashboard, mountLog, admin, upload, calc, db, loader>>

\* A torn-down view's cleanup sets the cancelled flag its mount fetch reads
\* (ReviewPage and BulkReviewList have one, the other views do not).
Cancel(q) == IF q.owner \in {"document", "docs"}
             THEN [q EXCEPT !.cancelled = TRUE] ELSE q
Copies(b, q) == IF q \in BagToSet(b) THEN b[q] ELSE 0
Teardown(b) ==
    [x \in {Cancel(q) : q \in BagToSet(b)} |->
        IF x.cancelled
        THEN Copies(b, x) + Copies(b, [x EXCEPT !.cancelled = FALSE])
        ELSE Copies(b, x)]

\* ------------------------------------------------------------ LoginPage
InitLogin == [pc |-> "form", portal |-> "user", error |-> "none", loading |-> FALSE,
              access |-> Absent, refresh |-> Absent, account |-> NoUser,
              navigated |-> "none", resolved |-> "none"]

\* The check by role alone.
isAdminRole(p) == p.role = "admin"

isAdminAccount(p) == p.role = "admin" \/ p.is_staff \/ p.is_superuser

\* The portal check with the Admin-portal branch only: an administrative
\* account passes through the User portal.
portalGateAdminOnly(portal, profile) ==
    IF portal = "admin"
    THEN IF ~isAdminAccount(profile)
         THEN [error |-> "notAdmin", nav |-> "none"]
         ELSE [error |-> "none", nav |-> "/admin/users"]
    ELSE [error |-> "none", nav |-> "/home"]

\* The portal check of onSubmit once the profile is known.
portalGate(portal, profile) ==
    IF portal = "admin"
    THEN IF ~isAdminAccount(profile)
         THEN [error |-> "notAdmin", nav |-> "none"]
         ELSE [error |-> "none", nav |-> "/admin/users"]
    ELSE IF isAdminAccount(profile)
         THEN [error |-> "adminPortalRequired", nav |-> "none"]
         ELSE [error |-> "none", nav |-> "/home"]

\* onSubmitAfterProfile with a catch block that caches the username beside
\* whatever tokens the storage holds.
onSubmitAfterProfileKeeping(s, l, q) ==
    IF handleApiResponse(q)
    THEN LET g == portalGate(l.portal, l.account) IN
         [store |-> saveTokens(s, l.access, l.refresh, l.account),
          login |-> [l EXCEPT !.pc = "form", !.loading = FALSE, !.error = g.error,
                              !.navigated = g.nav, !.resolved = "profile"],
          nav   |-> g.nav]
    ELSE [store |-> [s EXCEPT !.authUser = UsernameOnly],
          login |-> [l EXCEPT !.pc = "form", !.loading = FALSE,
                              !.navigated = "/home", !.resolved = "fallback"],
          nav   |-> "/home"]

\* onSubmit resumed with the settled profile request q: the try block on a
\* success response, the catch block on anything else.
onSubmitAfterProfile(s, l, q) ==
    IF handleApiResponse(q)
    THEN LET g == portalGate(l.portal, l.account) IN
         [store |-> saveTokens(s, l.access, l.refresh, l.account),
          login |-> [l EXCEPT !.pc = "form", !.loading = FALSE, !.error = g.error,
                              !.navigated = g.nav, !.resolved = "profile"],
          nav   |-> g.nav]
    ELSE [store |-> saveTokens(s, l.access, l.refresh, UsernameOnly),
          login |-> [l EXCEPT !.pc = "form", !.loading = FALSE,
                              !.navigated = "/home", !.resolved = "fallback"],
          nav   |-> "/home"]

\* onSubmit up to the token request.
LoginSubmit(portal, valid) ==
    /\ location = "/login" /\ ~effectPending /\ login.pc = "form"
    /\ login' = IF valid
                THEN [InitLogin EXCEPT !.pc = "awaitToken", !.portal = portal,
                                       !.loading = TRUE]
                ELSE [InitLogin EXCEPT !.portal = portal, !.error = "formInvalid"]
    /\ UNCHANGED <<store, location, effectPending, nextTok, req, review, dashboard, mountLog, admin, upload, calc, db, loader>>

\* The token request failed, or answered without both tokens.
LoginTokenRejected ==
    /\ login.pc = "awaitToken"
    /\ \E e \in {"network", "invalid"} :
         login' = [login EXCEPT !.pc = "form", !.loading = FALSE, !.error = e]
    /\ UNCHANGED <<store, location, effectPending, nextTok, req, review, dashboard, mountLog, admin, upload, calc, db, loader>>

\* The token request answered with both tokens: they are saved and the
\* profile is requested through fetchWithAuth.
LoginTokenIssued ==
    /\ login.pc = "awaitToken"
    /\ nextTok + 1 <= MaxTok
    /\ CanStart
    /\ \E acct \in Accounts :
         LET s1 == saveTokens(store, nextTok, nextTok + 1, NoUser) IN
         /\ store' = s1
         /\ req' = Add(req, fetchWithAuth(s1, "profile"))
         /\ login' = [login EXCEPT !.pc = "awaitProfile", !.access = nextTok,
                                   !.refresh = nextTok + 1, !.account = acct]
    /\ nextTok' = nextTok + 2
    /\ UNCHANGED <<location, effectPending, review, dashboard, mountLog, admin, upload, calc, db, loader>>

LoginProfileSettled(q) ==
    /\ login.pc = "awaitProfile"
    /\ q.owner = "profile" /\ Settled(q)
    /\ LET o == onSubmitAfterProfile(store, login, q) IN
         /\ store' = o.store
         /\ login' = o.login
         /\ IF o.nav # "none" THEN GoTo(o.nav)
                              ELSE UNCHANGED <<location, effectPending>>
    /\ req' = Remove(req, q)
    /\ UNCHANGED <<nextTok, review, dashboard, mountLog, admin, upload, calc, db, loader>>

\* ----------------------------------------------------------- ReviewPage
InitReview == [doc |-> FALSE, loading |-> FALSE, message |-> "none", error |-> "none",
               pc |-> "idle", timer |-> FALSE, fallback |-> FALSE,
               finalizeEnd |-> "none", patchEnd |-> "none", patchSent |-> FALSE,
               outcome |-> "none", fields |-> "none"]

\* How an invocation ended: the status it returned or the error it threw.
End(q) == IF q.pc = "thrown" THEN q.err ELSE q.status

\* updateField: the input's onChange puts the typed value in the field list
\* (one field, its value).
updateField(value) ==
    /\ location = "/review" /\ ~effectPending
    /\ review.doc
    /\ review' = [review EXCEPT !.fields = value]
    /\ UNCHANGED <<store, location, effectPending, nextTok, req, login, dashboard, mountLog, admin, upload, calc, db, loader>>

\* saveDraft up to its await: the PATCH carries the field list as it is now.
saveDraft ==
    /\ location = "/review" /\ ~effectPending
    /\ review.doc
    /\ CanStart
    /\ req' = Add(req, [fetchWithAuth(store, "save") EXCEPT !.payload = review.fields])
    /\ review' = [review EXCEPT !.message = "saving", !.error = "none"]
    /\ UNCHANGED <<store, location, effectPending, nextTok, login, dashboard, mountLog, admin, upload, calc, db, loader>>

\* saveDraft resumed: the success message and, when the body has
\* extracted_fields, the field list replaced by the backend's (the fields
\* the request carried); the catch block otherwise.
saveDraftSettled(rv, q, result) ==
    IF handleApiResponse(q)
    THEN [rv EXCEPT !.message = "saved",
                    !.fields = IF result = "fields" THEN q.payload ELSE @]
    ELSE [rv EXCEPT !.error = "save", !.message = "none"]

SaveSettled(q) ==
    /\ q.owner = "save" /\ Settled(q)
    /\ \E result \in {"fields", "nofields"} :
         review' = saveDraftSettled(review, q, result)
    /\ req' = Remove(req, q)
    /\ UNCHANGED <<store, location, effectPending, nextTok, login, dashboard, mountLog, admin, upload, calc, db, loader>>

\* The tail of acceptAndFinalize with the success message and the timer
\* outside the try block.
finalizeOutcomeEager(rv, q) ==
    [rv EXCEPT !.pc = "idle", !.message = "finalized", !.timer = TRUE,
               !.outcome = "success"]

\* The tail of acceptAndFinalize: handleApiResponse(res), then the success
\* message and the 2-second timer, or the outer catch.
finalizeOutcome(rv, q) ==
    IF handleApiResponse(q)
    THEN [rv EXCEPT !.pc = "idle", !.message = "finalized", !.timer = TRUE,
                    !.outcome = "success"]
    ELSE [rv EXCEPT !.pc = "idle", !.message = "none", !.error = "finalize",
                    !.outcome = "error"]

\* acceptAndFinalize resumed with the settled finalize request: the inner
\* catch runs the PATCH fallback only when fetchWithAuth threw.
useFallback(q) == q.pc = "thrown"

acceptAndFinalize ==
    /\ location = "/review" /\ ~effectPending
    /\ review.doc /\ review.pc = "idle"
    /\ CanStart
    /\ req' = Add(req, fetchWithAuth(store, "finalize"))
    /\ review' = [review EXCEPT !.pc = "finalize", !.message = "finalizing",
                                !.error = "none", !.fallback = FALSE,
                                !.finalizeEnd = "none", !.patchEnd = "none",
                                !.patchSent = FALSE, !.outcome = "none"]
    /\ UNCHANGED <<store, location, effectPending, nextTok, login, dashboard, mountLog, admin, upload, calc, db, loader>>

FinalizeSettled(q) ==
    /\ review.pc = "finalize"
    /\ q.owner = "finalize" /\ Settled(q)
    /\ LET rv == [review EXCEPT !.finalizeEnd = End(q)] IN
       IF useFallback(q)
       THEN /\ req' = Replace(req, q, fetchWithAuth(store, "patch"))
            /\ review' = [rv EXCEPT !.pc = "patch", !.fallback = TRUE]
       ELSE /\ req' = Remove(req, q)
            /\ review' = finalizeOutcome(rv, q)
    /\ UNCHANGED <<store, location, effectPending, nextTok, login, dashboard, mountLog, admin, upload, calc, db, loader>>

PatchSettled(q) ==
    /\ review.pc = "patch"
    /\ q.owner = "patch" /\ Settled(q)
    /\ review' = finalizeOutcome([review EXCEPT !.patchEnd = End(q),
                                                !.patchSent = q.sent # <<>>],
                                 q)
    /\ req' = Remove(req, q)
    /\ UNCHANGED <<store, location, effectPending, nextTok, login, dashboard, mountLog, admin, upload, calc, db, loader>>

\* The setTimeout callback of a successful finalize.
FinalizeTimer ==
    /\ review.timer
    /\ review' = [review EXCEPT !.timer = FALSE]
    /\ GoTo("/bulk-review")
    /\ UNCHANGED <<store, nextTok, req, login, dashboard, mountLog, admin, upload, calc, db, loader>>

\* The mount fetch of the document settled.
DocumentSettled(q) ==
    /\ q.owner = "document" /\ Settled(q)
    /\ review' = IF q.cancelled THEN review
                 ELSE IF handleApiResponse(q)
                 THEN [review EXCEPT !.doc = TRUE, !.loading = FALSE, !.fields = "v0"]
                 ELSE [review EXCEPT !.error = "load", !.loading = FALSE]
    /\ req' = Remove(req, q)
    /\ UNCHANGED <<store, location, effectPending, nextTok, login, dashboard, mountLog, admin, upload, calc, db, loader>>

\* ------------------------------------------- lib/constants.js, lib/utils.js
ALLOWED_FILE_TYPES == {"image/jpeg", "image/jpg", "image/png", "application/pdf"}

ALLOWED_FILE_EXTENSIONS == {<<".", "p", "d", "f">>, <<".", "j", "p", "g">>,
                            <<".", "j", "p", "e", "g">>, <<".", "p", "n", "g">>}

MAX_FILE_SIZE == 10 * 1024 * 1024

\* String.prototype.toLowerCase, on the letters file names are built from.
toLowerCase(s) ==
    LET lowerChar(c) ==
          CASE c = "P" -> "p" [] c = "D" -> "d" [] c = "F" -> "f" [] c = "N" -> "n"
            [] c = "G" -> "g" [] c = "J" -> "j" [] c = "E" -> "e" [] c = "X" -> "x"
            [] OTHER -> c IN
    [i \in 1..Len(s) |-> lowerChar(s[i])]

\* '.' + file.name.split('.').pop().toLowerCase(): split('.').pop() is what
\* follows the last dot, the whole name when there is none.
fileExtension(name) ==
    LET dots == {i \in 1..Len(name) : name[i] = "."}
        lastSegment ==
          IF dots = {} THEN name
          ELSE SubSeq(name, (CHOOSE i \in dots : \A j \in dots : j <= i) + 1, Len(name)) IN
    <<".">> \o toLowerCase(lastSegment)

\* validateFile with `>=` in the size check.
validateFileBelow(f) ==
    IF f.type \notin ALLOWED_FILE_TYPES THEN [isValid |-> FALSE, error |-> "type"]
    ELSE IF fileExtension(f.name) \notin ALLOWED_FILE_EXTENSIONS
    THEN [isValid |-> FALSE, error |-> "extension"]
    ELSE IF f.size >= MAX_FILE_SIZE THEN [isValid |-> FALSE, error |-> "tooLarge"]
    ELSE [isValid |-> TRUE, error |-> "none"]

\* validateFile of lib/utils.js: the first failing check gives the error.
validateFile(f) ==
    IF f.type \notin ALLOWED_FILE_TYPES THEN [isValid |-> FALSE, error |-> "type"]
    ELSE IF fileExtension(f.name) \notin ALLOWED_FILE_EXTENSIONS
    THEN [isValid |-> FALSE, error |-> "extension"]
    ELSE IF f.size > MAX_FILE_SIZE THEN [isValid |-> FALSE, error |-> "tooLarge"]
    ELSE [isValid |-> TRUE, error |-> "none"]

\* The media type a file of that extension would have.
typeOfExtension(ext) ==
    IF ext = <<".", "p", "d", "f">> THEN {"application/pdf"}
    ELSE IF ext = <<".", "p", "n", "g">> THEN {"image/png"}
    ELSE {"image/jpeg", "image/jpg"}

\* The checks of one file with a fourth one: the type must be the one of the
\* extension.
fileErrorsMatching(f) ==
    (IF f.type \notin ALLOWED_FILE_TYPES
     THEN <<[file |-> f.name, kind |-> "type"]>> ELSE <<>>)
    \o (IF fileExtension(f.name) \notin ALLOWED_FILE_EXTENSIONS
        THEN <<[file |-> f.name, kind |-> "extension"]>> ELSE <<>>)
    \o (IF f.size > MAX_FILE_SIZE
        THEN <<[file |-> f.name, kind |-> "tooLarge"]>> ELSE <<>>)
    \o (IF /\ f.type \in ALLOWED_FILE_TYPES
           /\ fileExtension(f.name) \in ALLOWED_FILE_EXTENSIONS
           /\ f.type \notin typeOfExtension(fileExtension(f.name))
        THEN <<[file |-> f.name, kind |-> "mismatch"]>> ELSE <<>>)

\* The body of the loop of UploadPage's validateFiles: every failing check
\* of the file pushes its message.
fileErrors(f) ==
    (IF f.type \notin ALLOWED_FILE_TYPES
     THEN <<[file |-> f.name, kind |-> "type"]>> ELSE <<>>)
    \o (IF fileExtension(f.name) \notin ALLOWED_FILE_EXTENSIONS
        THEN <<[file |-> f.name, kind |-> "extension"]>> ELSE <<>>)
    \o (IF f.size > MAX_FILE_SIZE
        THEN <<[file |-> f.name, kind |-> "tooLarge"]>> ELSE <<>>)

\* validateFiles of UploadPage: the messages of all files, in order.
RECURSIVE validateFilesInline(_)
validateFilesInline(fileList) ==
    IF fileList = <<>> THEN <<>>
    ELSE fileErrors(Head(fileList)) \o validateFilesInline(Tail(fileList))

\* Files the validators are called with.
Files ==
    [name : {<<"x", ".", "p", "d", "f">>, <<"x", ".", "P", "D", "F">>,
             <<"x", ".", "p", "n", "g">>, <<"a", ".", "e", "x", "e", ".", "j", "p", "g">>,
             <<"x", ".", "j", "p", "e", "g">>, <<"p", "d", "f">>,
             <<"x", ".", "e", "x", "e">>, <<"x", ".">>},
     type : {"application/pdf", "image/png", "image/jpeg", "image/jpg",
             "text/plain", ""},
     size : {0, 1, MAX_FILE_SIZE - 1, MAX_FILE_SIZE, MAX_FILE_SIZE + 1,
             2 * MAX_FILE_SIZE}]

NoCalc == [op |-> "none", file |-> [name |-> <<>>, type |-> "", size |-> 0],
           done |-> FALSE,
           verdict |-> [isValid |-> FALSE, error |-> "none"], errors |-> <<>>,
           bytes |-> <<0>>, text |-> <<>>]

\* validateFile(file) is called.
CallValidateFile ==
    /\ calc.op = "validate" /\ ~calc.done
    /\ calc' = [calc EXCEPT !.done = TRUE, !.verdict = validateFile(calc.file)]
    /\ UNCHANGED <<store, location, effectPending, nextTok, req, login, review, dashboard, mountLog, admin, upload, db, loader>>

\* UploadPage's validateFiles([file]) is called.
CallValidateInline ==
    /\ calc.op = "inline" /\ ~calc.done
    /\ calc' = [calc EXCEPT !.done = TRUE, !.errors = validateFilesInline(<<calc.file>>)]
    /\ UNCHANGED <<store, location, effectPending, nextTok, req, login, review, dashboard, mountLog, admin, upload, db, loader>>

\* formatFileSize. A byte count is a JavaScript number, an integer of up to
\* 53 bits; it is written here in base K = 1024, least significant digit first and
\* without leading zeros (1,572,864 is <<0, 512, 1>>), so that counts of a
\* tebibyte and more can be formatted.
K == 1024

sizes == <<"Bytes", "KB", "MB", "GB">>

\* The number a digit sequence stands for (used for counts below 2^31).
RECURSIVE Value(_)
Value(bytes) == IF bytes = <<>> THEN 0 ELSE Head(bytes) + K * Value(Tail(bytes))

\* Math.floor(Math.log(bytes) / Math.log(K)) for a count below 2^41: the
\* quotient of the two logarithms is exact at the powers of K and is away
\* from an integer by far more than the rounding error elsewhere.
floorLog(bytes) == Len(bytes) - 1

\* Math.floor(100 * 0.d_n ... d_1), the digits being those below the two
\* leading ones.
RECURSIVE lowHundredths(_)
lowHundredths(low) ==
    IF low = <<>> THEN 0
    ELSE (low[Len(low)] * 100 + lowHundredths(SubSeq(low, 1, Len(low) - 1))) \div K

\* Math.round((bytes / Math.pow(K, i)) * 100): the scaled count in
\* hundredths, halves rounded up.
roundedHundredths(bytes) ==
    LET n == Len(bytes) IN
    IF n = 1 THEN bytes[1] * 100
    ELSE bytes[n] * 100
         + (bytes[n - 1] * 100 + lowHundredths(SubSeq(bytes, 1, n - 2)) + K \div 2) \div K

\* Number-to-string of a non-negative integer.
RECURSIVE decimal(_)
decimal(n) ==
    LET digit == <<"0", "1", "2", "3", "4", "5", "6", "7", "8", "9">>[(n % 10) + 1] IN
    IF n < 10 THEN <<digit>> ELSE decimal(n \div 10) \o <<digit>>

\* Number-to-string of h / 100: no fraction when it is zero, no trailing zero.
numberText(h) ==
    decimal(h \div 100)
    \o (IF h % 100 = 0 THEN <<>>
        ELSE IF h % 10 = 0 THEN <<".">> \o decimal((h % 100) \div 10)
        ELSE <<".", decimal((h % 100) \div 10)[1], decimal(h % 10)[1]>>)

\* The characters of a unit name.
chars(u) ==
    CASE u = "Bytes" -> <<"B", "y", "t", "e", "s">>
      [] u = "KB" -> <<"K", "B">>
      [] u = "MB" -> <<"M", "B">>
      [] u = "GB" -> <<"G", "B">>
      [] OTHER -> <<"u", "n", "d", "e", "f", "i", "n", "e", "d">>

\* formatFileSize: sizes[i] is undefined past the last unit, and undefined
\* concatenates as the word "undefined".
formatFileSize(bytes) ==
    IF bytes = <<0>> THEN <<"0", " ">> \o chars("Bytes")
    ELSE LET i == floorLog(bytes)
             unit == IF i + 1 \in DOMAIN sizes THEN sizes[i + 1] ELSE "undefined"
         IN numberText(roundedHundredths(bytes)) \o <<" ">> \o chars(unit)

\* Byte counts formatFileSize is called with: 0, the counts of up to four
\* digits and those from 1024^4 to 2 * 1024^4 - 1.
ByteCounts ==
    LET ByteDigits == {0, 1, 128, 512, 1023} IN
    {<<0>>}
    \cup {b \in UNION {[1..n -> ByteDigits] : n \in 1..4} : b[Len(b)] # 0}
    \cup {b \in [1..5 -> ByteDigits] : b[5] = 1}

\* formatFileSize(bytes) is called.
CallFormatFileSize ==
    /\ calc.op = "format" /\ ~calc.done
    /\ calc' = [calc EXCEPT !.done = TRUE, !.text = formatFileSize(calc.bytes)]
    /\ UNCHANGED <<store, location, effectPending, nextTok, req, login, review, dashboard, mountLog, admin, upload, db, loader>>

\* ----------------------------------------------------------- UploadPage
\* files, category, loading, error, success are the view's state and input
\* the value of the file input.  error is null (<<>>) or the lines of the
\* message, success null (0) or the number of documents the message names.
\* timers holds the identifiers of the pending setTimeout callbacks, body
\* the last upload response handled, navigated the identifier of the last
\* review path onSubmit's callback went to (0 when none).
NoBody == [hasIds |-> FALSE, ids |-> <<>>]
InitUpload == [files |-> <<>>, input |-> <<>>, category |-> "attendance_sheet",
               loading |-> FALSE, error |-> <<>>, success |-> 0,
               pc |-> "idle", timers |-> <<>>, body |-> NoBody, navigated |-> 0]

MaxTimers == 2

\* Files the user picks from, and what one change of the file input can hold.
Selections ==
    LET Picks ==
          {[name |-> <<"x", ".", "p", "d", "f">>, type |-> "application/pdf", size |-> 1],
           [name |-> <<"x", ".", "p", "n", "g">>, type |-> "image/png",
            size |-> MAX_FILE_SIZE],
           [name |-> <<"x", ".", "j", "p", "e", "g">>, type |-> "image/jpeg",
            size |-> MAX_FILE_SIZE + 1],
           [name |-> <<"x", ".", "e", "x", "e">>, type |-> "text/plain",
            size |-> 2 * MAX_FILE_SIZE]} IN
    UNION {[1..n -> Picks] : n \in 0..2}

\* The JSON bodies of a successful upload response: without an identifier
\* array, or with one of these.
Bodies == {NoBody} \cup {[hasIds |-> TRUE, ids |-> l] : l \in {<<>>, <<42>>, <<42, 43>>}}

Line(kind) == <<[file |-> <<>>, kind |-> kind]>>

\* onFilesChange keeping the files of the selection that pass.
onFilesChangePartial(u, selectedFiles) ==
    LET validationErrors == validateFilesInline(selectedFiles) IN
    IF Len(validationErrors) > 0
    THEN [u EXCEPT !.error = validationErrors,
                   !.files = SelectSeq(selectedFiles, LAMBDA f : fileErrors(f) = <<>>),
                   !.input = SelectSeq(selectedFiles, LAMBDA f : fileErrors(f) = <<>>)]
    ELSE [u EXCEPT !.error = <<>>, !.files = selectedFiles, !.input = selectedFiles]

\* onFilesChange: the browser has put the picked files in the input.
onFilesChange(u, selectedFiles) ==
    LET validationErrors == validateFilesInline(selectedFiles) IN
    IF Len(validationErrors) > 0
    THEN [u EXCEPT !.error = validationErrors, !.files = <<>>, !.input = <<>>]
    ELSE [u EXCEPT !.error = <<>>, !.files = selectedFiles, !.input = selectedFiles]

\* The user picks files (the input is disabled while loading).
SelectFiles(sel) ==
    /\ location = "/upload" /\ ~effectPending
    /\ ~upload.loading
    /\ upload' = onFilesChange(upload, sel)
    /\ UNCHANGED <<store, location, effectPending, nextTok, req, login, review, dashboard, mountLog, admin, calc, db, loader>>

\* onSubmit up to the upload request.
UploadSubmit ==
    /\ location = "/upload" /\ ~effectPending
    /\ upload.pc = "idle" /\ ~upload.loading
    /\ IF Len(upload.files) = 0
       THEN /\ upload' = [upload EXCEPT !.error = Line("noFiles")]
            /\ UNCHANGED req
       ELSE /\ CanStart
            /\ Len(upload.timers) < MaxTimers
            /\ req' = Add(req, fetchWithAuth(store, "upload"))
            /\ upload' = [upload EXCEPT !.loading = TRUE, !.error = <<>>, !.success = 0,
                                        !.pc = "await"]
    /\ UNCHANGED <<store, location, effectPending, nextTok, login, review, dashboard, mountLog, admin, calc, db, loader>>

\* onSubmitSettled going to the review path of the last identifier.
onSubmitSettledLast(u, q, body) ==
    LET tried ==
            IF ~handleApiResponse(q)
            THEN [u EXCEPT !.error = Line("failed"), !.body = NoBody]
            ELSE IF body.hasIds /\ Len(body.ids) > 0
            THEN [u EXCEPT !.success = Len(body.ids), !.body = body,
                           !.timers = Append(@, body.ids[Len(body.ids)])]
            ELSE [u EXCEPT !.error = Line("noDocuments"), !.body = body]
    IN [tried EXCEPT !.loading = FALSE, !.input = <<>>, !.files = <<>>, !.pc = "idle"]

\* onSubmitSettled clearing in the try block instead of the finally block.
onSubmitSettledNoFinally(u, q, body) ==
    IF ~handleApiResponse(q)
    THEN [u EXCEPT !.error = Line("failed"), !.body = NoBody, !.pc = "idle"]
    ELSE LET tried ==
                 IF body.hasIds /\ Len(body.ids) > 0
                 THEN [u EXCEPT !.success = Len(body.ids), !.body = body,
                                !.timers = Append(@, body.ids[1])]
                 ELSE [u EXCEPT !.error = Line("noDocuments"), !.body = body]
         IN [tried EXCEPT !.loading = FALSE, !.input = <<>>, !.files = <<>>, !.pc = "idle"]

\* onSubmit resumed with the settled upload request q, whose JSON body is
\* body when the response is a success: the try block or the catch block,
\* then the finally block.
onSubmitSettled(u, q, body) ==
    LET tried ==
            IF ~handleApiResponse(q)
            THEN [u EXCEPT !.error = Line("failed"), !.body = NoBody]
            ELSE IF body.hasIds /\ Len(body.ids) > 0
            THEN [u EXCEPT !.success = Len(body.ids), !.body = body,
                           !.timers = Append(@, body.ids[1])]
            ELSE [u EXCEPT !.error = Line("noDocuments"), !.body = body]
    IN [tried EXCEPT !.loading = FALSE, !.input = <<>>, !.files = <<>>, !.pc = "idle"]

UploadSettled(q) ==
    /\ upload.pc = "await"
    /\ q.owner = "upload" /\ Settled(q)
    /\ \E body \in Bodies : upload' = onSubmitSettled(upload, q, body)
    /\ req' = Remove(req, q)
    /\ UNCHANGED <<store, location, effectPending, nextTok, login, review, dashboard, mountLog, admin, calc, db, loader>>

\* The setTimeout callback of a successful upload: navigate(`/review/${firstId}`).
UploadTimer ==
    /\ upload.timers # <<>>
    /\ upload' = [upload EXCEPT !.timers = Tail(@), !.navigated = Head(upload.timers)]
    /\ GoTo("/review")
    /\ UNCHANGED <<store, nextTok, req, login, review, dashboard, mountLog, admin, calc, db, loader>>

\* ----------------------------------------------------------- AdminUsers
\* Text is a sequence of characters.
UpayDomain == <<"@", "u", "p", "a", "y", "n", "g", "o", ".", "c", "o", "m">>

\* What the administrator may type into a text field, and into the email field.
Names == {<<>>, <<"b">>}
Emails == {<<>>,
           <<"a">> \o UpayDomain,
           <<"a">> \o UpayDomain \o <<".", "i", "n">>,
           <<"a", "@", "g", ".", "c", "o", "m">>}

\* The lists GET /api/users/ may answer with (user ids).
UserLists == {<<>>, <<7>>}

\* String.prototype.includes: suf occurs somewhere in s.
includes(s, suf) ==
    \E i \in 1..(Len(s) - Len(suf) + 1) : SubSeq(s, i, i + Len(suf) - 1) = suf

\* String.prototype.endsWith.
endsWith(s, suf) ==
    /\ Len(s) >= Len(suf)
    /\ SubSeq(s, Len(s) - Len(suf) + 1, Len(s)) = suf

InitAdmin == [username |-> <<>>, email |-> <<>>, role |-> "employee", password |-> <<>>,
              message |-> "none", loading |-> FALSE, users |-> <<>>, pc |-> "idle"]

\* onChange of the four inputs; the administrator types while nothing is
\* being submitted or loaded.
AdminEdit(u, e, p, r) ==
    /\ location = "/admin/users" /\ ~effectPending
    /\ admin.pc = "idle" /\ req = EmptyBag
    /\ admin' = [admin EXCEPT !.username = u, !.email = e, !.password = p, !.role = r]
    /\ UNCHANGED <<store, location, effectPending, nextTok, req, login, review, dashboard, mountLog, upload, calc, db, loader>>

\* The client-side validation of handleCreate: the message it sets, "none"
\* when the form passes.
createRejection(a) ==
    IF a.username = <<>> \/ a.email = <<>> \/ a.password = <<>> THEN "fillAll"
    ELSE IF ~endsWith(a.email, UpayDomain) THEN "domain"
    ELSE "none"

\* handleCreate up to the signup request (the submit button is disabled
\* while loading).
handleCreate ==
    /\ location = "/admin/users" /\ ~effectPending
    /\ admin.pc = "idle" /\ ~admin.loading
    /\ LET r == createRejection(admin) IN
       IF r # "none"
       THEN /\ admin' = [admin EXCEPT !.message = r, !.loading = FALSE]
            /\ UNCHANGED req
       ELSE /\ CanStart
            /\ req' = Add(req, fetchWithAuth(store, "signup"))
            /\ admin' = [admin EXCEPT !.message = "none", !.loading = TRUE, !.pc = "await"]
    /\ UNCHANGED <<store, location, effectPending, nextTok, login, review, dashboard, mountLog, upload, calc, db, loader>>

\* handleCreate resumed with the settled signup request q: the catch, the
\* `!res.ok` branch, or the success branch, which resets the form and calls
\* fetchUsers.
CreateSettled(q) ==
    /\ admin.pc = "await"
    /\ q.owner = "signup" /\ Settled(q)
    /\ IF q.pc = "thrown"
       THEN /\ admin' = [admin EXCEPT !.message = "thrown", !.loading = FALSE, !.pc = "idle"]
            /\ req' = Remove(req, q)
       ELSE IF q.status # "200"
       THEN /\ admin' = [admin EXCEPT !.message = "server", !.loading = FALSE, !.pc = "idle"]
            /\ req' = Remove(req, q)
       ELSE /\ admin' = [admin EXCEPT !.message = "created", !.loading = FALSE, !.pc = "idle",
                                      !.username = <<>>, !.email = <<>>,
                                      !.role = "employee", !.password = <<>>]
            /\ req' = Replace(req, q, fetchWithAuth(store, "users"))
    /\ UNCHANGED <<store, location, effectPending, nextTok, login, review, dashboard, mountLog, upload, calc, db, loader>>

\* ---------------------------------------------------------- mount effects
Feeds == {"attendance", "attendanceTrend", "gradeDistribution", "enrollmentGrowth",
          "financial", "expenditureTrend", "documentStats", "flaggedStudents"}

\* DashboardPage.  ends[k] is how the request of feed k ended ("pending"
\* while it has not), data[k] whether the feed's setter was called with loaded
\* data, error the page-level banner.
InitDashboard == [loading |-> TRUE, error |-> FALSE, requested |-> {},
                  ends |-> [k \in Feeds |-> "none"],
                  data |-> [k \in Feeds |-> FALSE], pc |-> "idle"]

\* How the request of one feed can end: a success status with a JSON object
\* or array, an error status, a thrown error.
FeedEnds == {"200", "404", "network"}

\* The async function mapped over the endpoints: data of a success response,
\* null when fetchWithAuth or handleApiResponse threw.
feedResult(end) == IF end = "200" THEN "data" ELSE "null"

\* fetchAllAnalytics from its first line to the await of the group.
fetchAllAnalytics(d) ==
    [d EXCEPT !.loading = TRUE, !.error = FALSE, !.requested = Feeds,
              !.ends = [k \in Feeds |-> "pending"], !.pc = "await"]

\* Promise.all in place of Promise.allSettled over functions that catch: one
\* failing feed rejects the group and the outer catch sets the banner.
analyticsOutcomeAll(d) ==
    IF \E k \in Feeds : feedResult(d.ends[k]) # "data"
    THEN [d EXCEPT !.error = TRUE, !.loading = FALSE, !.pc = "idle"]
    ELSE [d EXCEPT !.data = [k \in Feeds |-> TRUE], !.loading = FALSE, !.pc = "idle"]

\* fetchAllAnalytics after the group settled: every fulfilled result with
\* data goes to its setter, then the finally block.
analyticsOutcome(d) ==
    [d EXCEPT !.data = [k \in Feeds |->
                           IF feedResult(d.ends[k]) = "data" THEN TRUE ELSE d.data[k]],
              !.loading = FALSE, !.pc = "idle"]

\* The summary cards DashboardPage renders, each named by its feed: none
\* under the loading screen; the attendance, budget and documents cards
\* behind their state being non-null; the flagged-students card, which shows
\* the length of the list, behind no condition.
cards(d) ==
    IF d.loading THEN {}
    ELSE {k \in {"attendance", "financial", "documentStats"} : d.data[k]}
             \cup {"flaggedStudents"}

\* The request of feed k settled.
FeedSettled(k, end) ==
    /\ dashboard.pc = "await" /\ dashboard.ends[k] = "pending"
    /\ dashboard' = [dashboard EXCEPT !.ends[k] = end]
    /\ UNCHANGED <<store, location, effectPending, nextTok, req, login, review, mountLog, admin, upload, calc, db, loader>>

\* Promise.allSettled resolved: all eight have settled.
AnalyticsSettled ==
    /\ dashboard.pc = "await"
    /\ \A k \in Feeds : dashboard.ends[k] # "pending"
    /\ dashboard' = analyticsOutcome(dashboard)
    /\ UNCHANGED <<store, location, effectPending, nextTok, req, login, review, mountLog, admin, upload, calc, db, loader>>

\* The Refresh button, rendered when the loading screen is not: it calls
\* fetchAllAnalytics on the state as it is.
RefreshAnalytics ==
    /\ location = "/dashboard" /\ ~effectPending
    /\ ~dashboard.loading /\ dashboard.pc = "idle"
    /\ dashboard' = fetchAllAnalytics(dashboard)
    /\ UNCHANGED <<store, location, effectPending, nextTok, req, login, review, mountLog, admin, upload, calc, db, loader>>

\* mountLog: the view whose mount effect ran last, whether a token was stored
\* when it ran, where it sent the browser ("stay" when nowhere) and whether
\* it started a backend request.
NoMount == [path |-> "none", authed |-> FALSE, to |-> "none", fetched |-> FALSE]

Logged(path, to, fetched) ==
    mountLog' = [path |-> path, authed |-> isAuthenticated(store), to |-> to,
                 fetched |-> fetched]

\* The effect leaves the browser where it is.
Stay == effectPending' = FALSE /\ UNCHANGED location

MountLogin ==
    /\ location = "/login" /\ effectPending
    /\ IF isAuthenticated(store)
       THEN GoTo("/home") /\ Logged("/login", "/home", FALSE)
       ELSE Stay /\ Logged("/login", "stay", FALSE)
    /\ login' = IF login.pc = "form" THEN InitLogin ELSE login
    /\ req' = Teardown(req)
    /\ UNCHANGED <<store, nextTok, review, dashboard, admin, upload, calc, db, loader>>

\* HomePage has no effect at all: it renders whatever the storage holds.
MountHome ==
    /\ location = "/home" /\ effectPending
    /\ Stay /\ Logged("/home", "stay", FALSE)
    /\ req' = Teardown(req)
    /\ UNCHANGED <<store, nextTok, login, review, dashboard, admin, upload, calc, db, loader>>

MountUpload ==
    /\ location = "/upload" /\ effectPending
    /\ IF ~isAuthenticated(store)
       THEN GoTo("/login") /\ Logged("/upload", "/login", FALSE)
       ELSE Stay /\ Logged("/upload", "stay", FALSE)
    /\ req' = Teardown(req)
    /\ UNCHANGED <<store, nextTok, login, review, dashboard, admin, upload, calc, db, loader>>

\* The same effect with the guard left out, as HomePage is written.
MountFetchingUnguarded(path, owner) ==
    /\ location = path /\ effectPending
    /\ CanStart
    /\ Stay /\ Logged(path, "stay", TRUE)
    /\ req' = Add(Teardown(req), fetchWithAuth(store, owner))

\* A guarded view whose effect fetches once when a token is stored.
MountFetching(path, owner) ==
    /\ location = path /\ effectPending
    /\ IF ~isAuthenticated(store)
       THEN /\ GoTo("/login") /\ Logged(path, "/login", FALSE)
            /\ req' = Teardown(req)
       ELSE /\ CanStart
            /\ Stay /\ Logged(path, "stay", TRUE)
            /\ req' = Add(Teardown(req), fetchWithAuth(store, owner))

MountReview ==
    /\ MountFetching("/review", "document")
    /\ review' = IF ~isAuthenticated(store) THEN review
                 ELSE IF review.pc = "idle"
                 THEN [InitReview EXCEPT !.loading = TRUE, !.timer = review.timer]
                 ELSE [review EXCEPT !.doc = FALSE, !.loading = TRUE,
                                     !.message = "none", !.error = "none"]
    /\ UNCHANGED <<store, nextTok, login, dashboard, admin, upload, calc, db, loader>>

MountBulkReview ==
    /\ MountFetching("/bulk-review", "docs")
    /\ UNCHANGED <<store, nextTok, login, review, dashboard, admin, upload, calc, db, loader>>

MountProfile ==
    /\ MountFetching("/profile", "profileView")
    /\ UNCHANGED <<store, nextTok, login, review, dashboard, admin, upload, calc, db, loader>>

MountDashboard ==
    /\ location = "/dashboard" /\ effectPending
    /\ IF ~isAuthenticated(store)
       THEN GoTo("/login") /\ Logged("/dashboard", "/login", FALSE)
            /\ UNCHANGED dashboard
       ELSE /\ Stay /\ Logged("/dashboard", "stay", TRUE)
            /\ dashboard' = fetchAllAnalytics(InitDashboard)
    /\ req' = Teardown(req)
    /\ UNCHANGED <<store, nextTok, login, review, admin, upload, calc, db, loader>>

MountAdminUsers ==
    /\ location = "/admin/users" /\ effectPending
    /\ IF ~isAuthenticated(store)
       THEN GoTo("/login") /\ Logged("/admin/users", "/login", FALSE)
            /\ req' = Teardown(req)
       ELSE IF ~isAdminAccount(getAuthUser(store))
       THEN GoTo("/home") /\ Logged("/admin/users", "/home", FALSE)
            /\ req' = Teardown(req)
       ELSE /\ CanStart
            /\ Stay /\ Logged("/admin/users", "stay", TRUE)
            /\ req' = Add(Teardown(req), fetchWithAuth(store, "users"))
    /\ admin' = IF admin.pc = "idle" THEN InitAdmin ELSE admin
    /\ UNCHANGED <<store, nextTok, login, review, dashboard, upload, calc, db, loader>>

\* The mount fetch of BulkReviewList or ProfilePage, or fetchUsers of
\* AdminUsers, settled; fetchUsers stores the list of a success response.
ListSettled(q) ==
    /\ q.owner \in {"docs", "profileView", "users"} /\ Settled(q)
    /\ req' = Remove(req, q)
    /\ IF q.owner = "users" /\ handleApiResponse(q)
       THEN \E list \in UserLists : admin' = [admin EXCEPT !.users = list]
       ELSE UNCHANGED admin
    /\ UNCHANGED <<store, location, effectPending, nextTok, login, review, dashboard, mountLog, upload, calc, db, loader>>

\* ------------------------------------------------------------- the user
\* A link, the address bar, the back button.
UserNavigate(p) ==
    /\ ~effectPending
    /\ GoTo(p)
    /\ UNCHANGED <<store, nextTok, req, login, review, dashboard, mountLog, admin, upload, calc, db, loader>>

\* handleLogout of the views that have one, and HomePage's inline logout:
\* the three keys are removed and the browser goes to /login.
Logout ==
    /\ ~effectPending
    /\ location \in {"/home", "/bulk-review", "/profile", "/dashboard", "/admin/users"}
    /\ store' = clearTokens(store)
    /\ GoTo("/login")
    /\ UNCHANGED <<nextTok, req, login, review, dashboard, mountLog, admin, upload, calc, db, loader>>

\* ----------------------------------------------------------- HTMLLoader
\* loader.head is document.head, a bag of elements [tag, key, by]: key is
\* the href of a stylesheet link or the text of a style element, by tells
\* whether HTMLLoader created it.  loader.added is addedLinks and
\* addedStyles of the effect that is current, loader.container the page
\* whose body the container holds ("empty" when it holds nothing or when
\* the error message is rendered in its place), loader.loads the calls of
\* load() that have not returned: [page, cancelled, pc].
Pages == {"a.html", "b.html"}

\* The stylesheet hrefs and the style texts of the head of a prototype page
\* (an empty href is a link without the attribute).
PageHead(page) ==
    IF page = "a.html"
    THEN [links |-> <<"x.css", "x.css", "", "app.css">>, styles |-> <<"t1", "t0", "t1">>]
    ELSE [links |-> <<"y.css", "x.css">>, styles |-> <<"", "t1">>]

\* Head elements the application and its tooling own.
Foreign == {[tag |-> "link", key |-> "app.css", by |-> "other"],
            [tag |-> "style", key |-> "t0", by |-> "other"],
            [tag |-> "link", key |-> "x.css", by |-> "other"]}

InitLoader == [mounted |-> FALSE, page |-> "none", error |-> "none",
               container |-> "empty", head |-> EmptyBag, added |-> EmptyBag,
               loads |-> {}]

\* The forEach over the links of the parsed page: one without href is
\* skipped, one whose href a stylesheet link of the head has is skipped,
\* another is appended to the head and pushed on addedLinks.
RECURSIVE injectLinks(_, _)
injectLinks(ld, hrefs) ==
    IF hrefs = <<>> THEN ld
    ELSE LET href == Head(hrefs)
             newLink == [tag |-> "link", key |-> href, by |-> "loader"] IN
         IF href = "" \/ \E e \in BagToSet(ld.head) : e.tag = "link" /\ e.key = href
         THEN injectLinks(ld, Tail(hrefs))
         ELSE injectLinks([ld EXCEPT !.head = @ (+) SetToBag({newLink}),
                                     !.added = @ (+) SetToBag({newLink})],
                          Tail(hrefs))

\* The forEach over the style elements, compared by text.
RECURSIVE injectStyles(_, _)
injectStyles(ld, texts) ==
    IF texts = <<>> THEN ld
    ELSE LET textContent == Head(texts)
             newStyle == [tag |-> "style", key |-> textContent, by |-> "loader"] IN
         IF \E e \in BagToSet(ld.head) : e.tag = "style" /\ e.key = textContent
         THEN injectStyles(ld, Tail(texts))
         ELSE injectStyles([ld EXCEPT !.head = @ (+) SetToBag({newStyle}),
                                      !.added = @ (+) SetToBag({newStyle})],
                           Tail(texts))

\* setError(message): nothing when the component is gone; the error message
\* is rendered in place of the container.
setErrorFailed(ld) ==
    IF ld.mounted THEN [ld EXCEPT !.error = "failed", !.container = "empty"] ELSE ld

\* load() resumed after `await fetch(page)`: a rejected fetch and a response
\* that is not ok end in the catch block.
loadFetched(ld, l, out) ==
    LET rest == [ld EXCEPT !.loads = @ \ {l}] IN
    IF out = "ok" THEN [rest EXCEPT !.loads = @ \cup {[l EXCEPT !.pc = "text"]}]
    ELSE setErrorFailed(rest)

\* load() resumed after `await res.text()`: the catch block, the return of
\* a cancelled load, or the injection into head and container (the
\* container is there when no error is rendered).
loadText(ld, l, out) ==
    LET rest == [ld EXCEPT !.loads = @ \ {l}] IN
    IF out # "ok" THEN setErrorFailed(rest)
    ELSE IF l.cancelled THEN rest
    ELSE LET done == injectStyles(injectLinks(rest, PageHead(l.page).links),
                                  PageHead(l.page).styles) IN
         IF done.error = "none" THEN [done EXCEPT !.container = l.page] ELSE done

\* The cleanup that removes every loader-made or page-named sheet from the
\* head, whoever added it.
cleanupByKey(ld) ==
    LET gone == {e \in BagToSet(ld.head) :
                   \E a \in BagToSet(ld.added) : a.tag = e.tag /\ a.key = e.key} IN
    [ld EXCEPT !.head = [e \in BagToSet(ld.head) \ gone |-> ld.head[e]],
               !.added = EmptyBag, !.container = "empty",
               !.loads = {[l EXCEPT !.cancelled = TRUE] : l \in ld.loads}]

\* The effect's cleanup: the flag is set, the elements of addedLinks and
\* addedStyles are removed, the container is emptied.
cleanup(ld) ==
    [ld EXCEPT !.head = @ (-) ld.added, !.added = EmptyBag, !.container = "empty",
               !.loads = {[l EXCEPT !.cancelled = TRUE] : l \in ld.loads}]

\* The effect: load() up to `await fetch(page)`.
effect(ld, page) ==
    [ld EXCEPT !.page = page, !.error = "none",
               !.loads = @ \cup {[page |-> page, cancelled |-> FALSE, pc |-> "fetch"]}]

LoaderMount(page) ==
    /\ ~loader.mounted
    /\ loader' = effect([loader EXCEPT !.mounted = TRUE], page)
    /\ UNCHANGED <<store, location, effectPending, nextTok, req, login, review, dashboard, mountLog, admin, upload, calc, db>>

\* The page prop changes: the cleanup of the old effect, then the new one.
LoaderPageChange(page) ==
    /\ loader.mounted /\ page # loader.page
    /\ loader' = effect(cleanup(loader), page)
    /\ UNCHANGED <<store, location, effectPending, nextTok, req, login, review, dashboard, mountLog, admin, upload, calc, db>>

LoaderUnmount ==
    /\ loader.mounted
    /\ loader' = [cleanup(loader) EXCEPT !.mounted = FALSE, !.page = "none",
                                         !.error = "none"]
    /\ UNCHANGED <<store, location, effectPending, nextTok, req, login, review, dashboard, mountLog, admin, upload, calc, db>>

LoadFetched(l) ==
    /\ l.pc = "fetch"
    /\ \E out \in {"ok", "notok", "rejected"} : loader' = loadFetched(loader, l, out)
    /\ UNCHANGED <<store, location, effectPending, nextTok, req, login, review, dashboard, mountLog, admin, upload, calc, db>>

LoadText(l) ==
    /\ l.pc = "text"
    /\ \E out \in {"ok", "rejected"} : loader' = loadText(loader, l, out)
    /\ UNCHANGED <<store, location, effectPending, nextTok, req, login, review, dashboard, mountLog, admin, upload, calc, db>>

\* Some other code appends an element of its own to the head.
HeadOtherAdds(e) ==
    /\ e \notin BagToSet(loader.head)
    /\ loader' = [loader EXCEPT !.head = @ (+) SetToBag({e})]
    /\ UNCHANGED <<store, location, effectPending, nextTok, req, login, review, dashboard, mountLog, admin, upload, calc, db>>

\* ------------------------------------------------------- api/models.py
\* A row is [model, pk, fk]: fk gives, for every foreign-key field, the
\* primary key of the row referred to, Null when the field is null or the
\* model has no such field.  Foreign keys to Center, StoreItem, Category
\* and Student play no part in the deletion of a user and are left out.
Null == 0

AuditFields == {"created_by", "updated_by", "deleted_by"}
FkFields == AuditFields \cup {"user", "uploader", "requested_by", "received_by",
                              "document"}
Models == {"Center", "User", "Session", "Document", "ProcessingQueue",
           "ExtractedData", "UserPermissions", "ActivityLog", "StoreRequisition",
           "StoreReceivement"}

NoKey == [to |-> "none", on_delete |-> "none"]

\* The schema as the claim describes it: every reference to User but
\* Document.uploader is set to null on delete.
ForeignKeysNulling ==
    [m \in Models, f \in FkFields |->
        IF f \in AuditFields THEN [to |-> "User", on_delete |-> "SET_NULL"]
        ELSE IF <<m, f>> \in {<<"Session", "user">>, <<"UserPermissions", "user">>,
                              <<"ActivityLog", "user">>,
                              <<"StoreRequisition", "requested_by">>,
                              <<"StoreReceivement", "received_by">>}
        THEN [to |-> "User", on_delete |-> "SET_NULL"]
        ELSE IF <<m, f>> = <<"Document", "uploader">>
        THEN [to |-> "User", on_delete |-> "CASCADE"]
        ELSE IF <<m, f>> \in {<<"ProcessingQueue", "document">>,
                              <<"ExtractedData", "document">>}
        THEN [to |-> "Document", on_delete |-> "CASCADE"]
        ELSE IF <<m, f>> = <<"ActivityLog", "document">>
        THEN [to |-> "Document", on_delete |-> "SET_NULL"]
        ELSE NoKey]

\* The ForeignKey and OneToOneField declarations, by model and field: those
\* of BaseModel, which every model inherits, and those of the models.
ForeignKeys ==
    [m \in Models, f \in FkFields |->
        IF f \in AuditFields THEN [to |-> "User", on_delete |-> "SET_NULL"]
        ELSE IF <<m, f>> \in {<<"Session", "user">>, <<"Document", "uploader">>,
                              <<"UserPermissions", "user">>, <<"ActivityLog", "user">>,
                              <<"StoreRequisition", "requested_by">>,
                              <<"StoreReceivement", "received_by">>}
        THEN [to |-> "User", on_delete |-> "CASCADE"]
        ELSE IF <<m, f>> \in {<<"ProcessingQueue", "document">>,
                              <<"ExtractedData", "document">>}
        THEN [to |-> "Document", on_delete |-> "CASCADE"]
        ELSE IF <<m, f>> = <<"ActivityLog", "document">>
        THEN [to |-> "Document", on_delete |-> "SET_NULL"]
        ELSE NoKey]

\* Field f of row r refers to a row of gone, and its key says what is done
\* on delete.
RefersTo(r, f, gone, what) ==
    /\ r.fk[f] # Null
    /\ ForeignKeys[r.model, f].on_delete = what
    /\ \E t \in gone : t.model = ForeignKeys[r.model, f].to /\ t.pk = r.fk[f]

\* What deleting the rows of gone takes with it: the rows that refer to one
\* of them through a CASCADE key, and so on.
RECURSIVE collect(_, _)
collect(rows, gone) ==
    LET more == {r \in rows \ gone : \E f \in FkFields : RefersTo(r, f, gone, "CASCADE")} IN
    IF more = {} THEN gone ELSE collect(rows, gone \cup more)

\* A surviving row after the deletion of gone: its SET_NULL keys that
\* referred to a deleted row are null.
setNull(r, gone) ==
    [r EXCEPT !.fk = [f \in FkFields |->
        IF RefersTo(r, f, gone, "SET_NULL") THEN Null ELSE r.fk[f]]]

\* obj.delete()
delete(rows, obj) ==
    LET gone == collect(rows, {obj}) IN {setNull(r, gone) : r \in rows \ gone}

\* db.rows are the rows; db.last tells of the last deletion which user it
\* was and what the rows were before it.
NoDeletion == [user |-> Null, before |-> {}]
EmptyDb == [rows |-> {}, last |-> NoDeletion]

\* A user is deleted.
DeleteUser(u) ==
    /\ u \in db.rows /\ u.model = "User"
    /\ db' = [rows |-> delete(db.rows, u), last |-> [user |-> u.pk, before |-> db.rows]]
    /\ UNCHANGED <<store, location, effectPending, nextTok, req, login, review, dashboard, mountLog, admin, upload, calc, loader>>

\* The databases a deletion starts from: two users and at most MaxRows rows
\* of other models, one per model, whose references are to rows present.
MaxRows == 2

NoRefs == [f \in FkFields |-> Null]
RowKinds ==
    LET Audits == {NoRefs} \cup {[NoRefs EXCEPT ![f] = 1] : f \in AuditFields}
        UserFkOf(m) ==
          CASE m \in {"Session", "UserPermissions", "ActivityLog"} -> "user"
            [] m = "Document" -> "uploader"
            [] m = "StoreRequisition" -> "requested_by"
            [] m = "StoreReceivement" -> "received_by"
            [] OTHER -> "none" IN
    {[model |-> "Center", pk |-> 1, fk |-> a] : a \in Audits}
    \cup {[model |-> m, pk |-> 1, fk |-> [a EXCEPT ![UserFkOf(m)] = u]] :
            m \in {"Session", "Document", "UserPermissions", "ActivityLog",
                   "StoreRequisition", "StoreReceivement"},
            a \in {NoRefs, [NoRefs EXCEPT !["created_by"] = 1]}, u \in {1, 2}}
    \cup {[model |-> "ActivityLog", pk |-> 1,
           fk |-> [a EXCEPT !["user"] = u, !["document"] = 1]] :
            a \in {NoRefs, [NoRefs EXCEPT !["created_by"] = 1]}, u \in {1, 2}}
    \cup {[model |-> m, pk |-> 1, fk |-> [a EXCEPT !["document"] = 1]] :
            m \in {"ProcessingQueue", "ExtractedData"},
            a \in {NoRefs, [NoRefs EXCEPT !["created_by"] = 1]}}
\* The sets of at most n rows of different models.
RECURSIVE RowSets(_)
RowSets(n) ==
    IF n = 0 THEN {{}}
    ELSE LET fewer == RowSets(n - 1) IN
         fewer \cup UNION {{rs \cup {r} :
                               r \in {x \in RowKinds : \A t \in rs : t.model # x.model}} :
                           rs \in fewer}
Databases(n) ==
    LET UserRows ==
          {{[model |-> "User", pk |-> 1, fk |-> a], [model |-> "User", pk |-> 2, fk |-> b]} :
              a \in {NoRefs, [NoRefs EXCEPT !["created_by"] = 1]},
              b \in {NoRefs, [NoRefs EXCEPT !["created_by"] = 1]}}
        Consistent(rows) ==
          /\ \A r, t \in rows : r.model = t.model /\ r.pk = t.pk => r = t
          /\ \A r \in rows : r.fk["document"] # Null =>
                 \E t \in rows : t.model = "Document" /\ t.pk = r.fk["document"] IN
    {us \cup rs : us \in UserRows, rs \in {rows \in RowSets(n) : Consistent(rows)}}

\* ---------------------------------------------------------- specifications
NoSession == [access |-> Absent, refresh |-> Absent, authUser |-> NoUser]

\* The storage after a sign-in that cached user u: the first two tokens the
\* backend issued.
SignedIn(u) == [access |-> 1, refresh |-> 2, authUser |-> u]

AdminProfile == [kind |-> "profile", role |-> "admin", is_staff |-> FALSE,
                 is_superuser |-> FALSE]

\* What every specification starts with outside storage and route.
Fresh ==
    /\ effectPending = TRUE
    /\ req = EmptyBag
    /\ login = InitLogin
    /\ review = InitReview
    /\ dashboard = InitDashboard
    /\ mountLog = NoMount
    /\ admin = InitAdmin
    /\ upload = InitUpload
    /\ calc = NoCalc
    /\ db = EmptyDb /\ loader = InitLoader

\* The browser opened on route p with storage s, the backend's next token
\* being t.
Opened(s, t, p) == store = s /\ nextTok = t /\ location = p /\ Fresh

Fetch ==
    \/ \E q \in InFlight : FetchFirstResponse(q)
    \/ \E q \in InFlight : FetchRefreshResponse(q)
    \/ \E q \in InFlight : FetchRetryResponse(q)

\* SpecLogin: a browser with empty storage opens the application and signs in.
NextLogin ==
    \/ Fetch
    \/ \E portal \in {"user", "admin"}, valid \in BOOLEAN : LoginSubmit(portal, valid)
    \/ LoginTokenRejected
    \/ LoginTokenIssued
    \/ \E q \in InFlight : LoginProfileSettled(q)
    \/ MountLogin
    \/ MountHome
    \/ MountAdminUsers
    \/ \E q \in InFlight : ListSettled(q)
    \/ UserNavigate("/login")
    \/ Logout

SpecLogin == Opened(NoSession, 1, "/login") /\ [][NextLogin]_vars

\* SpecSession: a signed-in browser on the Profile view, whose mount fetch is
\* the authenticated request; re-opening the view runs several at once.
NextSession ==
    \/ Fetch
    \/ MountProfile
    \/ \E q \in InFlight : ListSettled(q)
    \/ MountLogin
    \/ MountHome
    \/ UserNavigate("/profile")
    \/ Logout

SpecSession == Opened(SignedIn(UsernameOnly), 3, "/profile") /\ [][NextSession]_vars

\* SpecReview: a signed-in browser opens a document in the Review view.
NextReview ==
    \/ Fetch
    \/ MountReview
    \/ \E q \in InFlight : DocumentSettled(q)
    \/ acceptAndFinalize
    \/ \E q \in InFlight : FinalizeSettled(q)
    \/ \E q \in InFlight : PatchSettled(q)
    \/ FinalizeTimer
    \/ MountLogin

SpecReview == Opened(SignedIn(UsernameOnly), 3, "/review") /\ [][NextReview]_vars

\* SpecDraft: the Review view of a signed-in browser, its fields edited and
\* saved as drafts.
NextDraft ==
    \/ Fetch
    \/ MountReview
    \/ \E q \in InFlight : DocumentSettled(q)
    \/ \E value \in {"v1", "v2"} : updateField(value)
    \/ saveDraft
    \/ \E q \in InFlight : SaveSettled(q)
    \/ MountLogin

SpecDraft == Opened(SignedIn(UsernameOnly), 3, "/review") /\ [][NextDraft]_vars

\* SpecViews: the browser is opened on any route, with or without a session
\* in storage; the views redirect, fetch and log out from there.
InitViews ==
    /\ store \in {NoSession} \cup {SignedIn(u) : u \in Accounts \cup {UsernameOnly, NoUser}}
    /\ nextTok = 3
    /\ location \in Routes /\ Fresh

NextViews ==
    \/ Fetch
    \/ MountLogin
    \/ MountHome
    \/ MountUpload
    \/ MountReview
    \/ MountBulkReview
    \/ MountProfile
    \/ MountDashboard
    \/ MountAdminUsers
    \/ \E q \in InFlight : DocumentSettled(q)
    \/ \E q \in InFlight : ListSettled(q)
    \/ Logout

SpecViews == InitViews /\ [][NextViews]_vars

\* SpecValidate: one file is handed to the shared validator or to the
\* Upload view's inline one.
InitValidate ==
    /\ store = SignedIn(UsernameOnly) /\ nextTok = 3
    /\ location = "/upload" /\ effectPending = TRUE
    /\ req = EmptyBag /\ login = InitLogin /\ review = InitReview
    /\ dashboard = InitDashboard /\ mountLog = NoMount /\ admin = InitAdmin
    /\ upload = InitUpload /\ db = EmptyDb /\ loader = InitLoader
    /\ \E f \in Files, op \in {"validate", "inline"} :
         calc = [NoCalc EXCEPT !.op = op, !.file = f]

NextValidate ==
    \/ CallValidateFile
    \/ CallValidateInline

SpecValidate == InitValidate /\ [][NextValidate]_vars

\* SpecUpload: a signed-in browser on the Upload view picks files and
\* submits them.
NextUpload ==
    \/ Fetch
    \/ MountUpload
    \/ \E sel \in Selections : SelectFiles(sel)
    \/ UploadSubmit
    \/ \E q \in InFlight : UploadSettled(q)
    \/ UploadTimer
    \/ MountLogin
    \/ UserNavigate("/home")
    \/ MountHome

SpecUpload == Opened(SignedIn(UsernameOnly), 3, "/upload") /\ [][NextUpload]_vars

\* SpecUploadLive: SpecUpload with every request the browser sent settling
\* (with a response or a thrown error) and the awaiting handler resumed.
SpecUploadLive ==
    /\ SpecUpload
    /\ WF_vars(Fetch)
    /\ WF_vars(\E q \in InFlight : UploadSettled(q))

\* SpecLoader: HTMLLoader is mounted, given other pages and unmounted
\* while its fetches settle.
InitLoaderView ==
    /\ store = NoSession /\ nextTok = 1
    /\ location = "/login" /\ effectPending = TRUE
    /\ req = EmptyBag /\ login = InitLogin /\ review = InitReview
    /\ dashboard = InitDashboard /\ mountLog = NoMount /\ admin = InitAdmin
    /\ upload = InitUpload /\ calc = NoCalc /\ db = EmptyDb
    /\ \E own \in SUBSET (Foreign \ {[tag |-> "link", key |-> "x.css", by |-> "other"]}) :
         loader = [InitLoader EXCEPT !.head = SetToBag(own)]

NextLoader ==
    \/ \E page \in Pages : LoaderMount(page)
    \/ \E page \in Pages : LoaderPageChange(page)
    \/ LoaderUnmount
    \/ \E l \in loader.loads : LoadFetched(l)
    \/ \E l \in loader.loads : LoadText(l)
    \/ \E e \in Foreign : HeadOtherAdds(e)

SpecLoader == InitLoaderView /\ [][NextLoader]_vars

\* SpecSchema: users are deleted from a database.
InitSchema ==
    /\ store = NoSession /\ nextTok = 1
    /\ location = "/login" /\ effectPending = TRUE
    /\ req = EmptyBag /\ login = InitLogin /\ review = InitReview
    /\ dashboard = InitDashboard /\ mountLog = NoMount /\ admin = InitAdmin
    /\ upload = InitUpload /\ calc = NoCalc /\ loader = InitLoader
    /\ \E rows \in Databases(MaxRows) : db = [rows |-> rows, last |-> NoDeletion]

NextSchema == \E u \in db.rows : DeleteUser(u)

SpecSchema == InitSchema /\ [][NextSchema]_vars

\* SpecFormat: one byte count is handed to formatFileSize.
InitFormat ==
    /\ store = SignedIn(UsernameOnly) /\ nextTok = 3
    /\ location = "/upload" /\ effectPending = TRUE
    /\ req = EmptyBag /\ login = InitLogin /\ review = InitReview
    /\ dashboard = InitDashboard /\ mountLog = NoMount /\ admin = InitAdmin
    /\ upload = InitUpload /\ db = EmptyDb /\ loader = InitLoader
    /\ \E b \in ByteCounts : calc = [NoCalc EXCEPT !.op = "format", !.bytes = b]

NextFormat == CallFormatFileSize

SpecFormat == InitFormat /\ [][NextFormat]_vars

\* SpecDashboard: a signed-in browser opens the Analytics Dashboard; the
\* backend settles the eight feeds in any order, each in any way.
NextDashboard ==
    \/ MountDashboard
    \/ \E k \in Feeds, end \in FeedEnds : FeedSettled(k, end)
    \/ AnalyticsSettled

SpecDashboard == Opened(SignedIn(UsernameOnly), 3, "/dashboard") /\ [][NextDashboard]_vars

\* SpecRefresh: the dashboard refreshed any number of times, against a
\* backend on which the attendance and the flagged-students feeds may fail.
NextRefresh ==
    \/ MountDashboard
    \/ \E k \in Feeds, end \in FeedEnds :
         /\ k \in {"attendance", "flaggedStudents"} \/ end = "200"
         /\ FeedSettled(k, end)
    \/ AnalyticsSettled
    \/ RefreshAnalytics

SpecRefresh == Opened(SignedIn(UsernameOnly), 3, "/dashboard") /\ [][NextRefresh]_vars

\* SpecAdmin: an administrator on the Admin Users view.
NextAdmin ==
    \/ Fetch
    \/ MountAdminUsers
    \/ \E q \in InFlight : ListSettled(q)
    \/ \E u \in Names, e \in Emails, p \in Names, r \in {"employee", "admin"} :
         AdminEdit(u, e, p, r)
    \/ handleCreate
    \/ \E q \in InFlight : CreateSettled(q)
    \/ MountLogin

SpecAdmin == Opened(SignedIn(AdminProfile), 3, "/admin/users") /\ [][NextAdmin]_vars

\* ================================================================ properties
\* An invocation record that the step brings into being: the invocation ran
\* (started or resumed) in this step and q is the state it reached.
Born(q) == q \in BagToSet(req') /\ Copies(req', q) > Copies(req, q)

\* C1 -- For any single authenticated request the original request is sent
\* at most twice and a refresh is attempted at most once; the response to the
\* retried request is what the call returns, whatever its status, with no
\* further refresh or retry.  (SpecSession)
C1_AtMostOneRetry ==
    \A q \in InFlight :
        /\ Len(q.sent) <= 2
        /\ q.refreshes <= 1
        /\ Len(q.answers) = 2 =>
             IF q.answers[2] = "network"
             THEN q.pc = "thrown" /\ q.err = "network"
             ELSE q.pc = "done" /\ q.status = q.answers[2]

\* The retried request was answered 404 and that is what the call returned.
C1_Witness ==
    \E q \in InFlight :
        /\ Len(q.sent) = 2 /\ q.refreshes = 1
        /\ q.answers = <<"401", "404">> /\ q.pc = "done" /\ q.status = "404"

\* C2 -- When the first response is 401 and the refresh succeeds and the
\* retry is answered 200: exactly two sends of the original request, the
\* refresh completed before the second send, the second send carries the
\* newly issued access token and never the one of the first send, and the
\* caller receives the 200.  (SpecSession)
C2_RefreshThenRetry ==
    \A q \in InFlight :
        /\ Len(q.sent) = 2 =>
             /\ q.answers[1] = "401"
             /\ q.refreshes = 1 /\ q.refreshKind = "ok"
             /\ q.dataAccess # Absent
             /\ q.sent[2] = q.dataAccess
             /\ q.sent[2] # q.sent[1]
        /\ q.answers = <<"401", "200">> =>
             /\ Len(q.sent) = 2
             /\ q.pc = "done" /\ q.status = "200"

C2_Witness ==
    \E q \in InFlight :
        /\ q.answers = <<"401", "200">> /\ q.refreshKind = "ok"
        /\ q.pc = "done" /\ q.status = "200"

\* C3 as stated -- when the response is 401 both before and after a
\* successful refresh there are exactly two sends, no access or refresh
\* token is stored afterwards, and the caller gets a failure.
C3_Original ==
    \A q \in InFlight :
        q.answers = <<"401", "401">> =>
            /\ Len(q.sent) = 2
            /\ ~handleApiResponse(q)
            /\ getAccessToken(store) = Absent
            /\ getRefreshToken(store) = Absent

\* C3 -- When the response is 401 both before and after a successful
\* refresh: exactly two sends of the original request, the 401 response of
\* the retry is returned to the caller as it is, the storage and the route
\* are left as they were (the tokens the refresh stored stay), and there is
\* never a third send.  (SpecSession)
C3_Amended ==
    [][\A q \in BagToSet(req') :
          (Born(q) /\ q.answers = <<"401", "401">>) =>
              /\ Len(q.sent) = 2 /\ q.refreshes = 1
              /\ q.pc = "done" /\ q.status = "401"
              /\ store' = store
              /\ location' = location]_vars

\* The retry was answered 401 and the renewed tokens are still stored.
C3_Witness ==
    \E q \in InFlight :
        /\ q.answers = <<"401", "401">> /\ q.pc = "done"
        /\ getAccessToken(store) = q.sent[2]
        /\ getRefreshToken(store) # Absent

\* C4 -- When the first response is 401 and the refresh yields no new access
\* token (for every cause), the stored tokens are cleared, the browser is
\* sent to /login, the call fails with the authentication-failed error and
\* isAuthenticated() is false afterwards.  (SpecSession)
C4_FailedRefreshSignsOut ==
    [][\A q \in BagToSet(req') :
          (Born(q) /\ q.answers = <<"401">> /\ q.refreshes = 1 /\ q.newAccess = Absent
                   /\ q.pc # "awaitRefresh") =>
              /\ q.pc = "thrown" /\ q.err = "authfailed"
              /\ location' = "/login"
              /\ getAccessToken(store') = Absent
              /\ getRefreshToken(store') = Absent
              /\ ~isAuthenticated(store')]_vars

\* C5 -- Given a stored refresh token and a refresh that fails with a
\* network error or a non-success response, refreshAccessToken returns null
\* and afterwards all three storage keys are absent.  (SpecSession)
C5_FailedRefreshClears ==
    [][\A q \in BagToSet(req') :
          (Born(q) /\ q.refreshKind \in {"network", "notok"}) =>
              /\ q.refreshSent # Absent
              /\ q.newAccess = Absent
              /\ getAccessToken(store') = Absent
              /\ getRefreshToken(store') = Absent
              /\ getAuthUser(store') = NoUser]_vars

\* The refresh endpoint answered with a non-success status.
C5_Witness ==
    \E q \in InFlight :
        /\ q.refreshKind = "notok" /\ q.refreshSent # Absent
        /\ q.newAccess = Absent
        /\ store = NoSession

\* C6 -- Given a stored refresh token and a refresh response carrying a new
\* access token, refreshAccessToken returns that token, getAccessToken()
\* returns the same value afterwards, and the stored refresh token becomes
\* the newly issued one if the response carried one and otherwise stays the
\* one that was sent.  (SpecSession)
C6_RefreshStoresTokens ==
    [][\A q \in BagToSet(req') :
          (Born(q) /\ q.refreshKind = "ok" /\ q.pc = "await2") =>
              /\ q.dataAccess # Absent
              /\ q.newAccess = q.dataAccess
              /\ getAccessToken(store') = q.dataAccess
              /\ getRefreshToken(store') =
                    IF q.dataRefresh # Absent THEN q.dataRefresh
                    ELSE q.refreshSent]_vars

\* The refresh response rotated the refresh token.
C6_Witness ==
    \E q \in InFlight :
        /\ q.refreshKind = "ok" /\ q.pc = "await2"
        /\ q.dataRefresh # Absent /\ q.dataRefresh # q.refreshSent
        /\ getRefreshToken(store) = q.dataRefresh
        /\ getAccessToken(store) = q.newAccess

\* C7 -- When no access token is stored, fetchWithAuth fails at once with an
\* error and sends nothing; no send ever carries an empty bearer.
\* (SpecReview)
C7_NoTokenNoRequest ==
    [][\A q \in BagToSet(req') :
          Born(q) =>
              /\ \A i \in DOMAIN q.sent : q.sent[i] # Absent
              /\ (q.answers = <<>> /\ ~q.cancelled /\ getAccessToken(store') = Absent) =>
                    /\ q.pc = "thrown" /\ q.err = "noauth"
                    /\ q.sent = <<>> /\ q.refreshes = 0]_vars

\* The PATCH fallback was called after a failed refresh had cleared the
\* storage.
C7_Witness ==
    \E q \in InFlight :
        /\ q.owner = "patch" /\ q.pc = "thrown" /\ q.err = "noauth"
        /\ q.sent = <<>>
        /\ ~isAuthenticated(store)

C9_FallbackOnAnyFailure ==
    (/\ review.outcome # "none"
     /\ review.finalizeEnd \in {"network", "404"}
     /\ review.fallback => review.patchEnd = "200") =>
        /\ review.outcome = "success"
        /\ review.fallback /\ review.patchSent
        /\ review.message = "finalized"

\* C10 as stated -- after a sign-in that resolved the account's role the
\* view navigates only when the portal matches the role; a mismatch shows an
\* error and does not navigate.  A profile fetch that failed resolves the
\* account as a non-admin one.
C10_Original ==
    (login.pc = "form" /\ login.resolved # "none") =>
        LET isAdmin == login.resolved = "profile" /\ isAdminAccount(login.account)
            match == (login.portal = "admin") <=> isAdmin IN
        IF match
        THEN /\ login.navigated = (IF isAdmin THEN "/admin/users" ELSE "/home")
             /\ login.error = "none"
        ELSE /\ login.navigated = "none"
             /\ login.error \in {"notAdmin", "adminPortalRequired"}

\* C10 -- After a sign-in whose profile fetch succeeded the view navigates
\* only when the portal matches the account's role (admin accounts on the
\* Admin portal to Admin Users, non-admin accounts on the User portal to
\* Home) and a mismatch in either direction shows an error and does not
\* navigate; after a sign-in whose profile fetch failed it navigates to Home
\* whatever the portal.  (SpecLogin)
C10_Amended ==
    (login.pc = "form" /\ login.resolved # "none") =>
        IF login.resolved = "profile"
        THEN LET isAdmin == isAdminAccount(login.account)
                 match == (login.portal = "admin") <=> isAdmin IN
             IF match
             THEN /\ login.navigated = (IF isAdmin THEN "/admin/users" ELSE "/home")
                  /\ login.error = "none"
             ELSE /\ login.navigated = "none"
                  /\ login.error = (IF isAdmin THEN "adminPortalRequired" ELSE "notAdmin")
        ELSE login.navigated = "/home" /\ login.error = "none"

\* An administrative account signed in through the User portal.
C10_Witness ==
    /\ login.pc = "form" /\ login.resolved = "profile"
    /\ login.portal = "user" /\ isAdminAccount(login.account)
    /\ login.error = "adminPortalRequired" /\ login.navigated = "none"
    /\ location = "/login"

\* s is some text followed by suf.
EndsIn(s, suf) == \E k \in 0..Len(s) : s = SubSeq(s, 1, k) \o suf

\* C11 -- In the Admin Users view, submitting the creation form with an
\* email that does not end in @upayngo.com, or with an empty username, email
\* or password, is rejected client-side: an error message is shown, no
\* network request is made, and the form fields and the user list are left
\* unchanged.  (SpecAdmin)
C11_CreateRejectedClientSide ==
    [][(/\ handleCreate
        /\ \/ admin.username = <<>> \/ admin.email = <<>> \/ admin.password = <<>>
           \/ ~EndsIn(admin.email, UpayDomain)) =>
            /\ admin'.message \in {"fillAll", "domain"}
            /\ ~admin'.loading /\ admin'.pc = "idle"
            /\ req' = req
            /\ admin'.username = admin.username /\ admin'.email = admin.email
            /\ admin'.password = admin.password /\ admin'.role = admin.role
            /\ admin'.users = admin.users]_vars

\* A form whose email has the domain in the middle was rejected, with users
\* listed and nothing in flight.
C11_Witness ==
    /\ admin.message = "domain"
    /\ admin.username # <<>> /\ admin.password # <<>>
    /\ admin.email = <<"a">> \o UpayDomain \o <<".", "i", "n">>
    /\ admin.users # <<>>
    /\ req = EmptyBag /\ admin.pc = "idle"

\* C12 -- In the Analytics Dashboard, for every subset of the eight feeds
\* that fails (thrown error or error status), each succeeding feed's data is
\* applied to the view, the failing feeds contribute no data, the page-level
\* error banner is not set, and loading ends only after all eight requests
\* have settled.  (SpecDashboard)
C12_PartialFailureTolerated ==
    /\ ~dashboard.error
    /\ (dashboard.requested = Feeds /\ ~dashboard.loading) =>
          /\ dashboard.pc = "idle"
          /\ \A k \in Feeds :
                /\ dashboard.ends[k] \in FeedEnds
                /\ dashboard.data[k] <=> (dashboard.ends[k] = "200")
    /\ (dashboard.requested = Feeds /\ dashboard.pc = "idle") => ~dashboard.loading
    /\ \A k \in Feeds : dashboard.data[k] => ~dashboard.loading

\* Five of the eight feeds failed, in both ways, and three succeeded.
C12_Witness ==
    /\ ~dashboard.loading /\ ~dashboard.error
    /\ {k \in Feeds : dashboard.ends[k] = "200"} =
          {"attendance", "financial", "flaggedStudents"}
    /\ {k \in Feeds : dashboard.data[k]} =
          {"attendance", "financial", "flaggedStudents"}
    /\ dashboard.ends["documentStats"] = "network"
    /\ dashboard.ends["gradeDistribution"] = "404"

\* C13: validateFile accepts a file exactly when its media type is in the
\* allowed-type list, the lower-cased last dot segment of its name (with a
\* leading dot) is in the allowed-extension list, and its size is at most
\* 10,485,760 bytes; a file of 10,485,761 bytes with allowed type and
\* extension is rejected with the too-large reason.
C13_ValidateFileBoundary ==
    (calc.op = "validate" /\ calc.done) =>
        LET f == calc.file
            typeOk == f.type \in ALLOWED_FILE_TYPES
            extOk == fileExtension(f.name) \in ALLOWED_FILE_EXTENSIONS
        IN /\ calc.verdict.isValid <=> (typeOk /\ extOk /\ f.size <= 10485760)
           /\ calc.verdict.isValid => calc.verdict.error = "none"
           /\ (typeOk /\ extOk /\ f.size = 10485761) =>
                  calc.verdict = [isValid |-> FALSE, error |-> "tooLarge"]

C13_Witness ==
    /\ calc.op = "validate" /\ calc.done
    /\ calc.file.size = 10485760
    /\ calc.file.name = <<"x", ".", "P", "D", "F">>
    /\ calc.verdict.isValid

\* C14 as stated: a file named x.pdf whose declared media type is image/png
\* is rejected both by validateFile and by UploadPage's inline validation.
C14_Original ==
    (/\ calc.done
     /\ calc.file.name = <<"x", ".", "p", "d", "f">>
     /\ calc.file.type = "image/png") =>
        /\ calc.op = "validate" => ~calc.verdict.isValid
        /\ calc.op = "inline" => calc.errors # <<>>

\* C14 amended: a file named x.pdf whose declared media type is image/png
\* passes both validators when it is at most 10,485,760 bytes (type and
\* extension are each looked up in their own list and never compared with
\* each other); a larger one is rejected, for its size only.
C14_Amended ==
    (/\ calc.done
     /\ calc.file.name = <<"x", ".", "p", "d", "f">>
     /\ calc.file.type = "image/png") =>
        LET fits == calc.file.size <= 10485760 IN
        /\ calc.op = "validate" =>
               calc.verdict = IF fits THEN [isValid |-> TRUE, error |-> "none"]
                              ELSE [isValid |-> FALSE, error |-> "tooLarge"]
        /\ calc.op = "inline" =>
               calc.errors = IF fits THEN <<>>
                             ELSE <<[file |-> calc.file.name, kind |-> "tooLarge"]>>

C14_Witness ==
    /\ calc.op = "inline" /\ calc.done
    /\ calc.file = [name |-> <<"x", ".", "p", "d", "f">>, type |-> "image/png", size |-> 1]
    /\ calc.errors = <<>>

\* C16: formatFileSize renders 0 as "0 Bytes" and every positive integer
\* byte count as its value scaled to the largest of the units Bytes, KB, MB,
\* GB (base 1024) that fits it, so that the rendered unit is always one of
\* the four; 1024 renders as "1 KB" and 1,572,864 as "1.5 MB".
C16_FormatFileSize ==
    (calc.op = "format" /\ calc.done) =>
        LET fits == IF Len(calc.bytes) > 4 THEN 4 ELSE Len(calc.bytes)
            unit == <<"Bytes", "KB", "MB", "GB">>[fits]
        IN /\ calc.bytes = <<0>> => calc.text = <<"0", " ", "B", "y", "t", "e", "s">>
           /\ EndsIn(calc.text, <<" ">> \o chars(unit))
           /\ (Len(calc.bytes) = 2 /\ Value(calc.bytes) = 1024) =>
                  calc.text = <<"1", " ", "K", "B">>
           /\ (Len(calc.bytes) = 3 /\ Value(calc.bytes) = 1572864) =>
                  calc.text = <<"1", ".", "5", " ", "M", "B">>

\* The upload request whose settling the step handles answered with success.
UploadAnswered ==
    \E q \in InFlight : /\ q.owner = "upload" /\ q.pc = "done" /\ q.status = "200"
                        /\ Copies(req', q) < Copies(req, q)

C18_SelectionAllOrNothing ==
    /\ [](\A i \in 1..Len(upload.files) :
            LET f == upload.files[i] IN
            /\ f.type \in ALLOWED_FILE_TYPES
            /\ fileExtension(f.name) \in ALLOWED_FILE_EXTENSIONS
            /\ f.size <= 10485760)
    /\ [][\A sel \in Selections :
            SelectFiles(sel) =>
                LET bad == {i \in 1..Len(sel) :
                              \/ sel[i].type \notin ALLOWED_FILE_TYPES
                              \/ fileExtension(sel[i].name) \notin ALLOWED_FILE_EXTENSIONS
                              \/ sel[i].size > 10485760}
                IN IF bad # {}
                   THEN /\ upload'.files = <<>> /\ upload'.input = <<>>
                        /\ upload'.error = validateFilesInline(sel)
                        /\ Len(upload'.error) >= Cardinality(bad)
                   ELSE /\ upload'.files = sel /\ upload'.input = sel
                        /\ upload'.error = <<>>
         ]_vars

C18_Witness ==
    /\ upload.files = <<>> /\ upload.input = <<>>
    /\ upload.error = <<[file |-> <<"x", ".", "j", "p", "e", "g">>, kind |-> "tooLarge"],
                        [file |-> <<"x", ".", "e", "x", "e">>, kind |-> "type"],
                        [file |-> <<"x", ".", "e", "x", "e">>, kind |-> "extension"],
                        [file |-> <<"x", ".", "e", "x", "e">>, kind |-> "tooLarge"]>>

\* C19: a submit of the Upload view with no selected file sets an error and
\* issues no request; a submit with at least one file ends, whatever the
\* outcome, and ends with loading false, the selection empty and the file
\* input cleared.
C19_SubmitAlwaysClears ==
    /\ [][/\ (UploadSubmit /\ Len(upload.files) = 0) =>
                 /\ upload'.error = <<[file |-> <<>>, kind |-> "noFiles"]>>
                 /\ req' = req
                 /\ ~upload'.loading /\ upload'.pc = "idle"
          /\ (UploadSubmit /\ Len(upload.files) > 0) =>
                 /\ BagCardinality(req') = BagCardinality(req) + 1
                 /\ upload'.loading /\ upload'.pc = "await"
          /\ (upload.pc = "await" /\ upload'.pc = "idle") =>
                 /\ ~upload'.loading
                 /\ upload'.files = <<>> /\ upload'.input = <<>>
         ]_vars
    /\ [](upload.loading <=> upload.pc = "await")
    /\ (upload.pc = "await") ~>
           (upload.pc = "idle" /\ ~upload.loading
              /\ upload.files = <<>> /\ upload.input = <<>>)

C19_Witness ==
    /\ upload.pc = "idle" /\ ~upload.loading
    /\ upload.files = <<>> /\ upload.input = <<>>
    /\ upload.error = <<[file |-> <<>>, kind |-> "failed"]>>

\* C17 as stated: deleting a User deletes no row of another entity except
\* the Documents that user uploaded (and what hangs on those Documents):
\* every other row survives, and its references to the deleted User are null.
C17_Original ==
    db.last.user # 0 =>
        \A r \in db.last.before :
            (/\ ~(r.model = "User" /\ r.pk = db.last.user)
             /\ ~(r.model = "Document" /\ r.fk["uploader"] = db.last.user)
             /\ r.model \notin {"ProcessingQueue", "ExtractedData"}) =>
                \E t \in db.rows :
                    /\ t.model = r.model /\ t.pk = r.pk
                    /\ \A f \in FkFields \ {"document"} :
                           t.fk[f] = IF r.fk[f] = db.last.user THEN 0 ELSE r.fk[f]

\* C17 amended: deleting a User deletes, with the user, the Sessions, User
\* Permissions and Activity Log rows of that user, the Store Requisitions
\* the user requested, the Store Receivements the user received and the
\* Documents the user uploaded, together with the Processing Queue and
\* Extracted Data rows of those Documents, and no other row; in the rows
\* that survive only the audit creator/modifier/deleter references to the
\* user, and the Activity Log references to a deleted Document, are set to
\* null.
C17_Amended ==
    db.last.user # 0 =>
        LET u == db.last.user
            owned(r) == \E f \in {"user", "uploader", "requested_by", "received_by"} :
                            r.fk[f] = u
            docs == {d \in db.last.before : d.model = "Document" /\ owned(d)}
            child(r) == /\ r.model \in {"ProcessingQueue", "ExtractedData"}
                        /\ \E d \in docs : r.fk["document"] = d.pk
            kept == {r \in db.last.before :
                       ~(r.model = "User" /\ r.pk = u) /\ ~owned(r) /\ ~child(r)}
            after(r) == [r EXCEPT !.fk = [f \in FkFields |->
                IF f \in {"created_by", "updated_by", "deleted_by"}
                THEN (IF r.fk[f] = u THEN 0 ELSE r.fk[f])
                ELSE IF f = "document" /\ r.model = "ActivityLog"
                THEN (IF \E d \in docs : r.fk[f] = d.pk THEN 0 ELSE r.fk[f])
                ELSE r.fk[f]]]
        IN db.rows = {after(r) : r \in kept}

C17_Witness ==
    /\ db.last.user = 1
    /\ \E r \in db.last.before : r.model = "Session" /\ r.fk["user"] = 1
    /\ \E r \in db.last.before : r.model = "Center" /\ r.fk["updated_by"] = 1
    /\ \E r \in db.rows : r.model = "Center" /\ \A f \in FkFields : r.fk[f] = 0
    /\ ~\E r \in db.rows : r.model = "Session"

\* C20: when the tokens were issued and the profile fetch that follows fails
\* for any reason (an error status, a thrown error, a 401 whose refresh
\* fails), the Login view caches the username alone as the user object,
\* leaves the issued tokens stored, and navigates to Home as a non-admin
\* sign-in whichever portal is selected.
C20_ProfileFailureFallsBack ==
    [][\A q \in InFlight :
         (LoginProfileSettled(q) /\ ~(q.pc = "done" /\ q.status = "200")) =>
             /\ store'.authUser = [kind |-> "username", role |-> "",
                                   is_staff |-> FALSE, is_superuser |-> FALSE]
             /\ store'.access = login.access /\ store'.access # Absent
             /\ store'.refresh = login.refresh /\ store'.refresh # Absent
             /\ location' = "/home" /\ effectPending'
             /\ login'.error = "none" /\ ~login'.loading
      ]_vars

C20_Witness ==
    /\ login.resolved = "fallback" /\ login.portal = "admin"
    /\ location = "/home"
    /\ store.authUser.kind = "username"
    /\ store.access = login.access /\ store.refresh = login.refresh

\* C21: in the Bulk Review List, the Review view and the Prototype Loader a
\* mount-time fetch that resolves or fails after the view was torn down (or
\* after the document id or the page changed) applies no state update: it
\* sets no document, list, error, loading flag or injected content.
C21_CancelledFetchAppliesNothing ==
    [][/\ \A q \in InFlight :
            (q.cancelled /\ (DocumentSettled(q) \/ ListSettled(q))) =>
                review' = review
       /\ \A l \in loader.loads :
            (l.cancelled /\ (LoadFetched(l) \/ LoadText(l))) =>
                /\ loader'.error = loader.error
                /\ loader'.container = loader.container
                /\ loader'.head = loader.head
      ]_vars

\* C22: every stylesheet link and style element HTMLLoader added to the
\* head is removed by its teardown and the container is then empty; an
\* element of the head HTMLLoader did not add stays in it; HTMLLoader never
\* adds a link whose href, or a style whose text, an element of the head
\* already has.
C22_LoaderFrame ==
    /\ [](/\ \A e \in BagToSet(loader.head) :
               e.by = "loader" => Copies(loader.added, e) = Copies(loader.head, e)
          /\ \A e \in BagToSet(loader.added) : e.by = "loader" /\ e \in BagToSet(loader.head)
          /\ ~loader.mounted =>
                 /\ loader.container = "empty"
                 /\ \A e \in BagToSet(loader.head) : e.by = "other")
    /\ [][/\ \A e \in BagToSet(loader.head) :
               e.by = "other" => Copies(loader'.head, e) >= Copies(loader.head, e)
          /\ (LoaderUnmount \/ \E page \in Pages : LoaderPageChange(page)) =>
               /\ loader'.container = "empty"
               /\ \A e \in BagToSet(loader'.head) :
                      e.by = "other" /\ Copies(loader'.head, e) = Copies(loader.head, e)
          /\ \A e \in BagToSet(loader'.head) :
               (e.by = "loader" /\ Copies(loader'.head, e) > Copies(loader.head, e)) =>
                   /\ Copies(loader'.head, e) = 1
                   /\ ~\E x \in BagToSet(loader.head) : x.tag = e.tag /\ x.key = e.key
                   /\ ~(e.tag = "link" /\ e.key = "")
         ]_vars

C22_Witness ==
    /\ ~loader.mounted
    /\ loader.loads = {[page |-> "a.html", cancelled |-> TRUE, pc |-> "text"]}
    /\ BagToSet(loader.head) = Foreign
    /\ loader.container = "empty"

C24_CardsOnlyWithData ==
    \A k \in cards(dashboard) :
        dashboard.data[k] /\ dashboard.ends[k] = "200"

\* C25: the mount effect of the Admin Users view redirects to Login when
\* no token is stored; with a token it redirects to Home when the cached user
\* is absent or has none of role admin, staff flag, superuser flag; it
\* fetches the user collection exactly when both checks pass, and then stays.
C25_AdminUsersMountGuard ==
    [][MountAdminUsers =>
         LET u == store.authUser
             tok == store.access # Absent
             allowed == /\ u.kind # "none"
                        /\ (u.role = "admin" \/ u.is_staff \/ u.is_superuser)
             fetched == \E q \in BagToSet(req') :
                           /\ q.owner = "users" /\ q.pc = "await1"
                           /\ Copies(req', q) > Copies(req, q) IN
         /\ ~tok => location' = "/login"
         /\ (tok /\ ~allowed) => location' = "/home"
         /\ (tok /\ allowed) => location' = location
         /\ fetched <=> (tok /\ allowed)
      ]_vars

\* An account with the staff flag alone was let in and the list requested.
C25_Witness ==
    /\ mountLog = [path |-> "/admin/users", authed |-> TRUE, to |-> "stay",
                   fetched |-> TRUE]
    /\ store.authUser = [kind |-> "profile", role |-> "user", is_staff |-> TRUE,
                         is_superuser |-> FALSE]
    /\ \E q \in InFlight : q.owner = "users" /\ q.pc = "await1"

\* C26: with several authenticated requests in flight that each received
\* 401 and each ran its own refresh, a refresh that fails for one request
\* never removes the tokens that the successful refresh of a concurrent
\* request has just stored, and never sends the browser to Login while the
\* other request has been renewed.
C26_ConcurrentRefreshesIndependent ==
    [][\A q \in InFlight, renewed \in InFlight :
          (/\ FetchRefreshResponse(q)
           /\ renewed.pc = "await2" /\ renewed.refreshKind = "ok"
           /\ renewed.sent[1] = q.sent[1]
           /\ renewed.refreshSent = q.refreshSent
           /\ getAccessToken(store) = renewed.newAccess) =>
              /\ getAccessToken(store') # Absent
              /\ getRefreshToken(store') # Absent
              /\ location' = location
      ]_vars

\* C27: in the Review view a completed Save draft never discards an edit
\* made after the save request was issued: when the response arrives, the
\* displayed field values still include the edits made while it was in
\* flight.
C27_SaveKeepsLaterEdits ==
    [][\A q \in InFlight :
          (/\ SaveSettled(q)
           /\ location = "/review" /\ ~effectPending /\ review.doc
           /\ review.fields # q.payload) =>
              review'.fields = review.fields
      ]_vars

\* C28: once the Upload view or the Review view has been left (the user
\* went to Home, or to the Bulk Review List, through the router), the delayed
\* redirect that its successful upload or finalize scheduled does not fire.
C28_NoRedirectAfterTeardown ==
    [][/\ (location = "/home" /\ upload.timers # <<>>) => ~UploadTimer
       /\ (location = "/bulk-review" /\ review.timer) => ~FinalizeTimer
      ]_vars

\* C29: after any sequence of fetch-all runs of the Analytics Dashboard the
\* data held for a feed is that of the most recently completed run: a feed
\* that failed or returned no data in the latest run holds no data.
C29_LatestRunOnly ==
    (dashboard.pc = "idle" /\ ~dashboard.loading) =>
        \A k \in Feeds : dashboard.data[k] => dashboard.ends[k] = "200"

\* C30: in every state the client's operations reach (login, saveTokens,
\* refresh, authenticated requests, logout, clearTokens), whenever no access
\* token is stored, neither a refresh token nor a cached user is stored.
C30_NoAccessNothingStored ==
    getAccessToken(store) = Absent =>
        /\ getRefreshToken(store) = Absent
        /\ getAuthUser(store) = NoUser

\* A sign-in stored tokens and a user; later nothing is stored.
C30_Witness ==
    /\ getAccessToken(store) = Absent
    /\ login.access # Absent /\ login.pc = "form" /\ login.navigated # "none"
    /\ location = "/login"

====
